---- MODULE Spec2Model ----
(***************************************************************************)
(* Model of the ChurchTools song export extension: the settings codec      *)
(* (buildSettings / applySettings), the session state of main.ts with its  *)
(* event handlers, and the column selection of the PDF export.             *)
(*                                                                         *)
(* JavaScript values are modelled by what the code can observe of them:    *)
(*   - a Set is a duplicate-free sequence (insertion order, as Array.from  *)
(*     and forEach see it);                                                 *)
(*   - a Map is a sequence of [key, value] entries with unique keys;        *)
(*   - a JSON value is a record [t, p, v, o]: its type tag t, the text p of *)
(*     a primitive, the elements v of an array, the own properties o of an  *)
(*     object.                                                              *)
(***************************************************************************)
EXTENDS Integers, Sequences, FiniteSets, TLC

\* ------------------------------------------------------------------ bounds

\* Largest tag catalog the server hands out.
NumTags == 3

\* Longest orderedTags / orderedDetails array of an imported document.
MaxLen == 3

\* ------------------------------------------------------------- JSON values

NoProps == <<>>

Undefined == [t |-> "undefined", p |-> "", v |-> <<>>, o |-> NoProps]

Null == [t |-> "null", p |-> "", v |-> <<>>, o |-> NoProps]

Num(text) == [t |-> "number", p |-> text, v |-> <<>>, o |-> NoProps]

Str(text) == [t |-> "string", p |-> text, v |-> <<>>, o |-> NoProps]

Bool(b) == [t |-> "boolean", p |-> IF b THEN "true" ELSE "false", v |-> <<>>, o |-> NoProps]

Arr(elems) == [t |-> "array", p |-> "", v |-> elems, o |-> NoProps]

Obj(props) == [t |-> "object", p |-> "", v |-> <<>>, o |-> props]

\* An array used where an object is expected: its own enumerable properties
\* are its indices "0", "1", ...; props holds them.
ArrAsObj(props) == [t |-> "array", p |-> "", v |-> <<>>, o |-> props]

\* An optional property: absent (undefined), or present with a value.
None == <<>>

Some(x) == <<x>>

\* JavaScript truthiness: undefined, null, false, 0 and "" are falsy.
Truthy(val) ==
  CASE val.t \in {"undefined", "null"} -> FALSE
    [] val.t = "boolean" -> val.p = "true"
    [] val.t = "number" -> val.p # "0"
    [] val.t = "string" -> val.p # ""
    [] OTHER -> TRUE

IsArray(val) == val.t = "array"

\* typeof x: null and arrays are 'object'.
TypeOf(val) ==
  CASE val.t \in {"null", "array", "object"} -> "object"
    [] OTHER -> val.t

\* ------------------------------------------------------- Set, Map, Array

Range(s) == {s[i] : i \in DOMAIN s}

\* Set.prototype.add: a member keeps its place, a new value goes last.
SetAdd(set, x) == IF x \in Range(set) THEN set ELSE Append(set, x)

\* Set.prototype.delete
SetDelete(set, x) == SelectSeq(set, LAMBDA y : y # x)

SetHas(set, x) == x \in Range(set)

MapHas(map, k) == \E i \in DOMAIN map : map[i].key = k

\* Map.prototype.set: an existing key keeps its place and takes the value.
MapSet(map, k, val) ==
  IF MapHas(map, k)
  THEN [i \in DOMAIN map |-> IF map[i].key = k THEN [key |-> k, value |-> val] ELSE map[i]]
  ELSE Append(map, [key |-> k, value |-> val])

\* map.get(k), `dflt` standing for undefined.
MapGet(map, k, dflt) ==
  IF MapHas(map, k) THEN map[CHOOSE i \in DOMAIN map : map[i].key = k].value ELSE dflt

\* Array.prototype.find on a catalog, by id: the index of the first entry
\* with that id, 0 when there is none (find returns undefined).
FindById(catalog, id) ==
  IF \E i \in DOMAIN catalog : catalog[i].id = id
  THEN CHOOSE i \in DOMAIN catalog :
         /\ catalog[i].id = id
         /\ \A j \in 1..(i - 1) : catalog[j].id # id
  ELSE 0

\* array.map(e => e.id)
Ids(items) == [i \in DOMAIN items |-> items[i].id]

\* ------------------------------------------------------------- catalogs

\* availableDetails of main.ts: the twelve detail fields, in catalog order.
availableDetails ==
  << [id |-> "name", label |-> "Name"],
     [id |-> "author", label |-> "Author"],
     [id |-> "category", label |-> "Category"],
     [id |-> "sourceReference", label |-> "Song Number"],
     [id |-> "ccli", label |-> "CCLI"],
     [id |-> "copyright", label |-> "Copyright"],
     [id |-> "tags", label |-> "Tags"],
     [id |-> "source", label |-> "Source"],
     [id |-> "key", label |-> "Key"],
     [id |-> "tempo", label |-> "Tempo (BPM)"],
     [id |-> "duration", label |-> "Duration"],
     [id |-> "description", label |-> "Description"] >>

\* ----------------------------------------------------------- settings codec

\* state.X.clear(); array.forEach(id => state.X.add(id))
RECURSIVE AddAll(_, _)
AddAll(set, elems) ==
  IF elems = <<>> THEN set ELSE AddAll(SetAdd(set, Head(elems)), Tail(elems))

\* The first loop of a reconciliation: the catalog entry of each imported id
\* that names one is pushed, in the order of the imported array.
RECURSIVE PushKnown(_, _, _)
PushKnown(ids, catalog, newOrder) ==
  IF ids = <<>> THEN newOrder
  ELSE LET i == FindById(catalog, Head(ids))
       IN PushKnown(Tail(ids), catalog,
                    IF i # 0 THEN Append(newOrder, catalog[i]) ELSE newOrder)

\* The second loop: every catalog entry whose id newOrder does not hold yet
\* is pushed, in catalog order.
RECURSIVE PushMissing(_, _)
PushMissing(catalog, newOrder) ==
  IF catalog = <<>> THEN newOrder
  ELSE PushMissing(Tail(catalog),
                   IF FindById(newOrder, Head(catalog).id) = 0
                   THEN Append(newOrder, Head(catalog))
                   ELSE newOrder)

applySelectedCategoryIds(settings, state) ==
  IF Truthy(settings.selectedCategoryIds) /\ IsArray(settings.selectedCategoryIds)
  THEN [state EXCEPT !.selectedCategoryIds = AddAll(<<>>, settings.selectedCategoryIds.v)]
  ELSE state

applySelectedTagIds(settings, state) ==
  IF Truthy(settings.selectedTagIds) /\ IsArray(settings.selectedTagIds)
  THEN [state EXCEPT !.selectedTagIds = AddAll(<<>>, settings.selectedTagIds.v)]
  ELSE state

\* Mutant: the new order is pushed without emptying orderedTags first.
applyOrderedTagsNoReset(settings, state) ==
  IF Truthy(settings.orderedTags) /\ IsArray(settings.orderedTags)
  THEN [state EXCEPT !.orderedTags =
          state.orderedTags \o
          PushMissing(state.tags, PushKnown(settings.orderedTags.v, state.tags, <<>>))]
  ELSE state

\* state.orderedTags.length = 0; state.orderedTags.push(...newOrder)
applyOrderedTags(settings, state) ==
  IF Truthy(settings.orderedTags) /\ IsArray(settings.orderedTags)
  THEN [state EXCEPT !.orderedTags =
          PushMissing(state.tags, PushKnown(settings.orderedTags.v, state.tags, <<>>))]
  ELSE state

\* Mutant: every imported id is added, whether the catalog knows it or not.
AddAllDetails(set, ids, catalog) == AddAll(set, ids)

\* selectedDetails.clear(), then the ids availableDetails knows are added.
RECURSIVE AddKnownDetails(_, _, _)
AddKnownDetails(set, ids, catalog) ==
  IF ids = <<>> THEN set
  ELSE AddKnownDetails(IF FindById(catalog, Head(ids)) # 0
                       THEN SetAdd(set, Head(ids)) ELSE set,
                       Tail(ids), catalog)

applySelectedDetails(settings, state) ==
  IF Truthy(settings.selectedDetails) /\ IsArray(settings.selectedDetails)
  THEN [state EXCEPT !.selectedDetails =
          AddKnownDetails(<<>>, settings.selectedDetails.v, state.availableDetails)]
  ELSE state

applyOrderedDetails(settings, state) ==
  IF Truthy(settings.orderedDetails) /\ IsArray(settings.orderedDetails)
  THEN [state EXCEPT !.orderedDetails =
          PushMissing(state.availableDetails,
                      PushKnown(settings.orderedDetails.v, state.availableDetails, <<>>))]
  ELSE state

\* forEach(([key, value]) => ...): destructuring an element that is not
\* iterable (null, a number, a plain object) throws a TypeError; the entries
\* set before it stay set.  The result is the map and whether it threw.
RECURSIVE SetKnownEntries(_, _, _)
SetKnownEntries(map, entries, catalog) ==
  IF entries = <<>> THEN [map |-> map, raised |-> FALSE]
  ELSE IF ~Head(entries).iterable THEN [map |-> map, raised |-> TRUE]
  ELSE SetKnownEntries(IF FindById(catalog, Head(entries).key) # 0
                       THEN MapSet(map, Head(entries).key, Head(entries).value)
                       ELSE map,
                       Tail(entries), catalog)

RECURSIVE SetEntries(_, _)
SetEntries(map, entries) ==
  IF entries = <<>> THEN [map |-> map, raised |-> FALSE]
  ELSE IF ~Head(entries).iterable THEN [map |-> map, raised |-> TRUE]
  ELSE SetEntries(MapSet(map, Head(entries).key, Head(entries).value), Tail(entries))

applyDetailFormatting(settings, state) ==
  IF Truthy(settings.detailFormatting) /\ IsArray(settings.detailFormatting)
  THEN LET r == SetKnownEntries(<<>>, settings.detailFormatting.v, state.availableDetails)
       IN [state |-> [state EXCEPT !.detailFormatting = r.map], raised |-> r.raised]
  ELSE [state |-> state, raised |-> FALSE]

applyAlphabeticalGrouping(settings, state) ==
  IF Truthy(settings.alphabeticalGroupingPerContext)
     /\ IsArray(settings.alphabeticalGroupingPerContext)
  THEN LET r == SetEntries(<<>>, settings.alphabeticalGroupingPerContext.v)
       IN [state |-> [state EXCEPT !.alphabeticalGroupingPerContext = r.map],
           raised |-> r.raised]
  ELSE [state |-> state, raised |-> FALSE]

\* Mutant: the value is coerced to a boolean instead of being type-checked.
applyIncludeAllSongsListCoerced(settings, state) ==
  [state EXCEPT !.includeAllSongsList = Truthy(settings.includeAllSongsList)]

applyIncludeAllSongsList(settings, state) ==
  IF TypeOf(settings.includeAllSongsList) = "boolean"
  THEN [state EXCEPT !.includeAllSongsList = (settings.includeAllSongsList.p = "true")]
  ELSE state

\* Object.assign(target, source): every own enumerable property of source is
\* written to target; the other properties of target stay.
ObjectAssign(target, source) ==
  [k \in DOMAIN target \cup DOMAIN source |->
     IF k \in DOMAIN source THEN source[k] ELSE target[k]]

applyHeaderStyleOptions(settings, state) ==
  IF Truthy(settings.headerStyleOptions) /\ TypeOf(settings.headerStyleOptions) = "object"
  THEN [state EXCEPT !.headerStyleOptions =
          ObjectAssign(state.headerStyleOptions, settings.headerStyleOptions.o)]
  ELSE state

\* applySettings(settings, state): the state it leaves and whether it threw.
\* A throw ends the call: the keys after the throwing one are not applied.
applySettings(settings, state) ==
  LET s1 == applySelectedCategoryIds(settings, state)
      s2 == applySelectedTagIds(settings, s1)
      s3 == applyOrderedTags(settings, s2)
      s4 == applySelectedDetails(settings, s3)
      s5 == applyOrderedDetails(settings, s4)
      r6 == applyDetailFormatting(settings, s5)
      r7 == applyAlphabeticalGrouping(settings, r6.state)
      s8 == applyIncludeAllSongsList(settings, r7.state)
      s9 == applyHeaderStyleOptions(settings, s8)
  IN IF r6.raised THEN r6
     ELSE IF r7.raised THEN r7
     ELSE [state |-> s9, raised |-> FALSE]

\* Mutant: the entries of a map come out last to first.
EntriesReversed(map) ==
  [i \in DOMAIN map |->
     [iterable |-> TRUE, key |-> map[Len(map) + 1 - i].key,
      value |-> map[Len(map) + 1 - i].value]]

\* Array.from(map.entries())
Entries(map) == [i \in DOMAIN map |-> [iterable |-> TRUE, key |-> map[i].key, value |-> map[i].value]]

\* Mutant: orderedTags is taken from the catalog, not from the state's order.
buildSettingsCatalogOrder(state, options, now) ==
  [ version |-> Str("1.0"),
    timestamp |-> Str(IF options.timestamp # None THEN options.timestamp[1] ELSE now),
    selectedCategoryIds |-> Arr(state.selectedCategoryIds),
    selectedTagIds |-> Arr(state.selectedTagIds),
    orderedTags |-> Arr(Ids(state.tags)),
    selectedDetails |-> Arr(state.selectedDetails),
    orderedDetails |-> Arr(Ids(state.orderedDetails)),
    detailFormatting |-> Arr(Entries(state.detailFormatting)),
    alphabeticalGroupingPerContext |-> Arr(Entries(state.alphabeticalGroupingPerContext)),
    includeAllSongsList |-> Bool(state.includeAllSongsList),
    headerStyleOptions |-> Obj(state.headerStyleOptions) ]

\* buildSettings(state, options): options?.timestamp ?? now, now being the
\* clock's new Date().toISOString().
buildSettings(state, options, now) ==
  [ version |-> Str("1.0"),
    timestamp |-> Str(IF options.timestamp # None THEN options.timestamp[1] ELSE now),
    selectedCategoryIds |-> Arr(state.selectedCategoryIds),
    selectedTagIds |-> Arr(state.selectedTagIds),
    orderedTags |-> Arr(Ids(state.orderedTags)),
    selectedDetails |-> Arr(state.selectedDetails),
    orderedDetails |-> Arr(Ids(state.orderedDetails)),
    detailFormatting |-> Arr(Entries(state.detailFormatting)),
    alphabeticalGroupingPerContext |-> Arr(Entries(state.alphabeticalGroupingPerContext)),
    includeAllSongsList |-> Bool(state.includeAllSongsList),
    headerStyleOptions |-> Obj(state.headerStyleOptions) ]

\* ------------------------------------------------------------ session data

VARIABLES
  state,                 \* the selection state of main.ts (a SettingsState)
  doc,                   \* the settings document last passed to applySettings
  pre,                   \* the selection state before the last apply / import
  phase,                 \* SpecApply: "ready", "applied", "twice"; Spec: the handler that ran last
  raised,                \* whether the last applySettings call threw
  file,                  \* the settings file last chosen for import
  alertMsg,              \* the last alert shown
  detailDom,             \* the .detail-item elements, in DOM order
  tagDom,                \* the .tag-item elements, in DOM order
  page,                  \* the controls of the page outside the two lists
  songs,                 \* the songs loadAllSongs returned
  detail,                \* a getDetailValue call: song, detail id, result
  pdf,                   \* the document definition generatePDF built last
  built,                 \* the last buildSettings call: its options and the document returned
  heap,                  \* the objects the state and the documents share, by address
  load,                  \* the loadAllSongs call: its loop variables and the requests made
  draggedDetailElement,  \* position in detailDom of the dragged element, 0: null
  draggedTagElement,     \* position in tagDom of the dragged element, 0: null
  settingsFile,          \* the settings file the last settings export wrote
  exported,              \* the options the last PDF export handed to generatePDF
  nEvents,               \* user gestures so far
  nImports               \* settings imports so far

codecVars == <<state, doc, pre, phase, raised>>

sessionVars ==
  <<file, alertMsg, detailDom, tagDom, page, songs, detail, pdf, built, heap, load,
    draggedDetailElement, draggedTagElement, settingsFile, exported, nEvents, nImports>>

vars == <<codecVars, sessionVars>>

\* songCategories of the master data, sorted by name.
categories == << [id |-> 10, name |-> "Hymns"], [id |-> 20, name |-> "Songs"] >>

\* The tags the server knows, filtered and sorted by name; a session's
\* catalog is a prefix of it.  Two tags may carry the same name.
TagPool ==
  << [id |-> 2, name |-> "Hymn"], [id |-> 1, name |-> "Praise"],
     [id |-> 3, name |-> "Praise"], [id |-> 4, name |-> "Worship"],
     [id |-> 5, name |-> "Youth"] >>

TagCatalogs == {SubSeq(TagPool, 1, n) : n \in 0..NumTags}

\* `tag_${tag.id}`
TagContext(id) == "tag_" \o ToString(id)

DefaultFormatting == [bold |-> FALSE, italic |-> FALSE, fontSize |-> 11]

DefaultHeaderStyle ==
  [alignment |-> "left", fontSize |-> 16, bold |-> TRUE, italic |-> FALSE,
   underline |-> FALSE, inBox |-> FALSE]

\* The selection state main.ts constructs for the catalog `catalog`.
InitialState(catalog) ==
  [ selectedCategoryIds |-> AddAll(<<>>, Ids(categories)),
    selectedTagIds |-> AddAll(<<>>, Ids(catalog)),
    orderedTags |-> catalog,
    selectedDetails |-> <<"name", "author", "category">>,
    orderedDetails |-> availableDetails,
    detailFormatting |->
      [i \in DOMAIN availableDetails |->
         [key |-> availableDetails[i].id, value |-> DefaultFormatting]],
    alphabeticalGroupingPerContext |->
      <<[key |-> "allSongs", value |-> FALSE]>> \o
      [i \in DOMAIN catalog |-> [key |-> TagContext(catalog[i].id), value |-> FALSE]],
    includeAllSongsList |-> TRUE,
    headerStyleOptions |-> DefaultHeaderStyle,
    availableDetails |-> availableDetails,
    tags |-> catalog ]

\* ------------------------------------------------- inputs of the codec check

SeqsUpTo(S, n) == UNION {[1..k -> S] : k \in 0..n}

\* The duplicate-free sequences over S: the Sets with members in S.
SetsOver(S) ==
  {q \in SeqsUpTo(S, Cardinality(S)) : \A i, j \in DOMAIN q : i # j => q[i] # q[j]}

\* Every order of the entries of a catalog.
Orders(catalog) ==
  {[i \in DOMAIN catalog |-> catalog[q[i]]] : q \in {r \in SetsOver(DOMAIN catalog) : Len(r) = Len(catalog)}}

\* Ids an imported orderedTags / selectedTagIds array may hold: catalog ids
\* and a foreign one.
TagIdInputs == Range(Ids(SubSeq(TagPool, 1, NumTags))) \cup {99}

\* Ids an imported detail array may hold; "unknown" is in no catalog.
DetailIdInputs == {"name", "author", "tempo", "unknown"}

OtherHeaderStyle ==
  [alignment |-> "center", fontSize |-> 18, bold |-> FALSE, italic |-> TRUE,
   underline |-> TRUE, inBox |-> TRUE]

BoldFormatting == [bold |-> TRUE, italic |-> FALSE, fontSize |-> 14]

ItalicFormatting == [bold |-> FALSE, italic |-> TRUE, fontSize |-> 8]

\* Formatting maps whose keys are catalog ids.
FormattingMaps ==
  { <<>>,
    <<[key |-> "name", value |-> BoldFormatting]>>,
    <<[key |-> "tempo", value |-> ItalicFormatting], [key |-> "name", value |-> DefaultFormatting]>>,
    InitialState(<<>>).detailFormatting }

\* Grouping maps; "tag_99" is a stale context key.
GroupingMaps ==
  { <<>>,
    <<[key |-> "allSongs", value |-> TRUE]>>,
    <<[key |-> "allSongs", value |-> FALSE], [key |-> "tag_1", value |-> TRUE]>>,
    <<[key |-> "tag_99", value |-> TRUE], [key |-> "allSongs", value |-> TRUE]>> }

\* Selections of detail ids inside the catalog (with and without "name",
\* below and above four members).
DetailSelections ==
  { <<>>, <<"name">>, <<"author", "name">>, <<"name", "author", "category">>,
    <<"tempo", "key", "name", "author">>,
    <<"author", "category", "ccli", "key", "name">> }

DetailOrders ==
  {PushMissing(availableDetails, PushKnown(q, availableDetails, <<>>)) :
     q \in SetsOver(DetailIdInputs \ {"unknown"})}

\* A second state of a session with the catalog `catalog`, different from
\* the initial one in every part.
OtherState(catalog) ==
  [ selectedCategoryIds |-> <<20>>,
    selectedTagIds |-> IF catalog = <<>> THEN <<>> ELSE <<catalog[Len(catalog)].id>>,
    orderedTags |-> [i \in DOMAIN catalog |-> catalog[Len(catalog) + 1 - i]],
    selectedDetails |-> <<"tempo", "name">>,
    orderedDetails |-> PushMissing(availableDetails, PushKnown(<<"tempo", "key">>, availableDetails, <<>>)),
    detailFormatting |-> <<[key |-> "key", value |-> ItalicFormatting]>>,
    alphabeticalGroupingPerContext |-> <<[key |-> "tag_2", value |-> TRUE]>>,
    includeAllSongsList |-> FALSE,
    headerStyleOptions |-> OtherHeaderStyle,
    availableDetails |-> availableDetails,
    tags |-> catalog ]

\* The states a document is applied to; the third one carries a header style
\* property that an earlier import left behind.
TargetStates(catalog) ==
  { InitialState(catalog), OtherState(catalog),
    [OtherState(catalog) EXCEPT
       !.headerStyleOptions = ObjectAssign(DefaultHeaderStyle, [extra |-> "x"])] }

\* Valid states: a target state with one part replaced.  Selected details
\* and formatting keys are catalog ids, both orders are orders of their
\* catalogs.
ValidStates(catalog) ==
  UNION { {[b EXCEPT !.selectedCategoryIds = q] : q \in SetsOver({10, 20, 30})}
          \cup {[b EXCEPT !.selectedTagIds = q] : q \in SetsOver(Range(Ids(catalog)))}
          \cup {[b EXCEPT !.orderedTags = q] : q \in Orders(catalog)}
          \cup {[b EXCEPT !.selectedDetails = q] : q \in DetailSelections}
          \cup {[b EXCEPT !.orderedDetails = q] : q \in DetailOrders}
          \cup {[b EXCEPT !.detailFormatting = q] : q \in FormattingMaps}
          \cup {[b EXCEPT !.alphabeticalGroupingPerContext = q] : q \in GroupingMaps}
          \cup {[b EXCEPT !.includeAllSongsList = q] : q \in BOOLEAN}
          \cup {[b EXCEPT !.headerStyleOptions = q] : q \in {DefaultHeaderStyle, OtherHeaderStyle}}
          : b \in TargetStates(catalog) }

IsOrderOf(order, catalog) ==
  /\ Len(order) = Len(catalog)
  /\ \A i \in DOMAIN catalog : Cardinality({j \in DOMAIN order : order[j] = catalog[i]}) = 1

Valid(s) ==
  /\ Range(s.selectedDetails) \subseteq Range(Ids(s.availableDetails))
  /\ \A i \in DOMAIN s.detailFormatting :
       s.detailFormatting[i].key \in Range(Ids(s.availableDetails))
  /\ IsOrderOf(s.orderedTags, s.tags)
  /\ IsOrderOf(s.orderedDetails, s.availableDetails)

\* A document with no key at all: {}.
EmptyDoc ==
  [ version |-> Undefined, timestamp |-> Undefined,
    selectedCategoryIds |-> Undefined, selectedTagIds |-> Undefined,
    orderedTags |-> Undefined, selectedDetails |-> Undefined,
    orderedDetails |-> Undefined, detailFormatting |-> Undefined,
    alphabeticalGroupingPerContext |-> Undefined,
    includeAllSongsList |-> Undefined, headerStyleOptions |-> Undefined ]

Pair(k, val) == [iterable |-> TRUE, key |-> k, value |-> val]

\* An array element that is not iterable, such as null or 5.
NotIterableFormatting == [iterable |-> FALSE, key |-> "", value |-> DefaultFormatting]

NotIterableGrouping == [iterable |-> FALSE, key |-> "", value |-> FALSE]

\* The document of settings.test.ts, every key present.
FullDoc ==
  [ version |-> Str("1.0"), timestamp |-> Str("2026-02-14T00:00:00.000Z"),
    selectedCategoryIds |-> Arr(<<20>>), selectedTagIds |-> Arr(<<2>>),
    orderedTags |-> Arr(<<2, 99>>),
    selectedDetails |-> Arr(<<"tempo", "unknown", "name">>),
    orderedDetails |-> Arr(<<"tempo">>),
    detailFormatting |->
      Arr(<<Pair("tempo", ItalicFormatting), Pair("unknown", BoldFormatting)>>),
    alphabeticalGroupingPerContext |->
      Arr(<<Pair("allSongs", TRUE), Pair("tag_2", TRUE)>>),
    includeAllSongsList |-> Bool(FALSE),
    headerStyleOptions |-> Obj(OtherHeaderStyle) ]

\* Values that are no array.
NotArrays ==
  {Undefined, Null, Num("7"), Num("0"), Str("x"), Str(""), Bool(TRUE), Bool(FALSE),
   Obj(NoProps)}

FormattingArrays ==
  SeqsUpTo({Pair("name", BoldFormatting), Pair("name", ItalicFormatting),
            Pair("tempo", ItalicFormatting), Pair("unknown", BoldFormatting),
            NotIterableFormatting}, 2)

GroupingArrays ==
  SeqsUpTo({Pair("allSongs", TRUE), Pair("allSongs", FALSE), Pair("tag_1", TRUE),
            NotIterableGrouping}, 2)

HeaderInputs ==
  { Undefined, Null, Num("7"), Str("x"), Bool(TRUE),
    Obj(NoProps), Obj(OtherHeaderStyle), Obj([alignment |-> "center"]),
    Obj([fontSize |-> 20, bold |-> FALSE]), Obj([extra |-> "x"]),
    ArrAsObj(NoProps), ArrAsObj(("0" :> "x")) }

\* The documents that differ from `b` in one key.
DocSlices(b) ==
  {[b EXCEPT !.selectedCategoryIds = x] :
     x \in NotArrays \cup {Arr(q) : q \in SeqsUpTo({10, 20, 30}, 2)}}
  \cup {[b EXCEPT !.selectedTagIds = x] :
     x \in NotArrays \cup {Arr(q) : q \in SeqsUpTo(TagIdInputs, 2)}}
  \cup {[b EXCEPT !.orderedTags = x] :
     x \in NotArrays \cup {Arr(q) : q \in SeqsUpTo(TagIdInputs, MaxLen)}}
  \cup {[b EXCEPT !.selectedDetails = x] :
     x \in NotArrays \cup {Arr(q) : q \in DetailSelections \cup SeqsUpTo(DetailIdInputs, 2)}}
  \cup {[b EXCEPT !.orderedDetails = x] :
     x \in NotArrays \cup {Arr(q) : q \in SeqsUpTo(DetailIdInputs, MaxLen)}}
  \cup {[b EXCEPT !.detailFormatting = x] :
     x \in NotArrays \cup {Arr(q) : q \in FormattingArrays}}
  \cup {[b EXCEPT !.alphabeticalGroupingPerContext = x] :
     x \in NotArrays \cup {Arr(q) : q \in GroupingArrays}}
  \cup {[b EXCEPT !.includeAllSongsList = x] :
     x \in {Undefined, Null, Num("1"), Str("true"), Arr(<<>>), Obj(NoProps),
            Bool(TRUE), Bool(FALSE)}}
  \cup {[b EXCEPT !.headerStyleOptions = x] : x \in HeaderInputs}

NoOptions == [timestamp |-> None]

\* What new Date().toISOString() returns in the modelled run.
Now == "2026-11-02T00:00:00.000Z"

\* The documents buildSettings makes of the valid states.
BuiltDocs(catalog) == {buildSettings(s, NoOptions, Now) : s \in ValidStates(catalog)}

Docs(catalog) == DocSlices(EmptyDoc) \cup DocSlices(FullDoc) \cup BuiltDocs(catalog)

\* --------------------------------------------- SpecApply: the codec alone

NoFile == [t |-> "none", p |-> "", v |-> <<>>, o |-> NoProps]

NoExport == [done |-> FALSE]

NoPage == [loaded |-> FALSE]

NoDetail == [done |-> FALSE]

NoPdf == [done |-> FALSE]

NoBuilt == [done |-> FALSE]

NoHeap == [done |-> FALSE]

NoLoad == [done |-> FALSE]

\* No page, no file, no event.
NoMain ==
  /\ file = NoFile
  /\ alertMsg = "none"
  /\ detailDom = <<>>
  /\ tagDom = <<>>
  /\ page = NoPage
  /\ songs = <<>>
  /\ built = NoBuilt
  /\ heap = NoHeap
  /\ load = NoLoad
  /\ draggedDetailElement = 0
  /\ draggedTagElement = 0
  /\ settingsFile = NoFile
  /\ exported = NoExport
  /\ nEvents = 0
  /\ nImports = 0

\* The codec is checked outside a session, and nothing is rendered.
NoSession ==
  /\ NoMain
  /\ detail = NoDetail
  /\ pdf = NoPdf

\* A state of a session and a document; applySettings is then called on
\* them, and once more with the same document.
InitApply ==
  /\ \E catalog \in TagCatalogs :
       /\ state \in TargetStates(catalog)
       /\ doc \in Docs(catalog)
  /\ pre = state
  /\ phase = "ready"
  /\ raised = FALSE
  /\ NoSession

ApplyOnce ==
  /\ phase = "ready"
  /\ LET r == applySettings(doc, state)
     IN /\ state' = r.state
        /\ raised' = r.raised
  /\ pre' = state
  /\ phase' = "applied"
  /\ UNCHANGED <<doc, sessionVars>>

ApplyAgain ==
  /\ phase = "applied"
  /\ LET r == applySettings(doc, state)
     IN /\ state' = r.state
        /\ raised' = r.raised
  /\ pre' = state
  /\ phase' = "twice"
  /\ UNCHANGED <<doc, sessionVars>>

\* The options a caller passes to buildSettings: none, a timestamp, an empty
\* timestamp.
OptionInputs ==
  {NoOptions, [timestamp |-> Some("2020-01-01T00:00:00.000Z")], [timestamp |-> Some("")]}

\* buildSettings(state, options) on the same states.
BuildSettings ==
  /\ phase = "ready"
  /\ \E options \in OptionInputs :
       built' = [ done |-> TRUE, options |-> options, state |-> state,
                  document |-> buildSettings(state, options, Now) ]
  /\ phase' = "built"
  /\ UNCHANGED <<state, doc, pre, raised, file, alertMsg, detailDom, tagDom, page,
                 songs, detail, pdf, heap, load, draggedDetailElement,
                 draggedTagElement, settingsFile, exported, nEvents, nImports>>

NextApply == ApplyOnce \/ ApplyAgain \/ BuildSettings

SpecApply == InitApply /\ [][NextApply]_vars

\* ------------------------------------------------------ claims on the codec

\* The fields of the HeaderStyleOptions interface.
HeaderFields == DOMAIN DefaultHeaderStyle

\* What a round trip has to preserve of a state.
Observed(s) ==
  [ selectedCategoryIds |-> s.selectedCategoryIds,
    selectedTagIds |-> s.selectedTagIds,
    selectedDetails |-> s.selectedDetails,
    orderedTags |-> s.orderedTags,
    orderedDetails |-> s.orderedDetails,
    detailFormatting |-> s.detailFormatting,
    alphabeticalGroupingPerContext |-> s.alphabeticalGroupingPerContext,
    includeAllSongsList |-> s.includeAllSongsList,
    headerStyleOptions |-> [k \in HeaderFields |-> s.headerStyleOptions[k]] ]

\* C1: round trip.  When the document applied to a state F is the one
\* buildSettings made of a valid state S with the same catalogs, F afterwards
\* equals S in the selected category ids, tag ids and details, both orders,
\* the formatting and grouping maps, includeAllSongsList and the header style.
C1_RoundTrip ==
  (phase = "applied" /\ doc.timestamp = Str(Now)) =>
    \A s \in ValidStates(state.tags) :
      (Valid(s) /\ doc = buildSettings(s, NoOptions, Now)) => Observed(state) = Observed(s)

\* C1 witness: a built document was applied to a state that differed from
\* the state it was built of, tag order included.
C1_Witness ==
  /\ phase = "applied"
  /\ \E s \in ValidStates(state.tags) :
       /\ doc = buildSettings(s, NoOptions, Now)
       /\ Observed(pre) # Observed(s)
       /\ pre.orderedTags # s.orderedTags
       /\ s.orderedTags # s.tags
       /\ Observed(state) = Observed(s)

\* C2: reconciler totality.  Whatever id array a document holds for
\* orderedTags or orderedDetails (empty, with duplicates, with foreign ids),
\* the order applySettings writes holds every catalog entry exactly once and
\* nothing else.
C2_ReconcilerTotality ==
  phase # "ready" =>
    /\ IsArray(doc.orderedTags) => IsOrderOf(state.orderedTags, state.tags)
    /\ IsArray(doc.orderedDetails) => IsOrderOf(state.orderedDetails, state.availableDetails)

\* C7: idempotence.  Applying a document a second time leaves the state the
\* first application produced.
C7_Idempotent == phase = "twice" => state = pre

\* C7 witness: the document was applied twice, and it changed the state it
\* was first applied to (which was one of the target states), order included.
C7_Witness ==
  /\ phase = "twice"
  /\ state \notin TargetStates(state.tags)
  /\ IsArray(doc.orderedTags) /\ Len(doc.orderedTags.v) >= 2
  /\ state.orderedTags # state.tags

\* C8: applySettings raises for no document that is an object.
C8_NeverRaises == ~raised

TruthyText(opt) == opt # None /\ opt[1] # ""

\* Truthiness of an optional number: undefined and 0 are falsy.
TruthyNumber(opt) == opt # None /\ opt[1] # 0

\* text || dflt
OrText(opt, dflt) == IF TruthyText(opt) THEN opt[1] ELSE dflt

\* Mutant: obj.field, which throws a TypeError when obj is null or undefined.
PlainAccess(obj, field) ==
  IF obj = None THEN [raised |-> TRUE, value |-> None]
  ELSE [raised |-> FALSE, value |-> obj[1][field]]

\* obj?.field: undefined when obj is null or undefined.
OptionalChain(obj, field) ==
  IF obj = None THEN [raised |-> FALSE, value |-> None]
  ELSE [raised |-> FALSE, value |-> obj[1][field]]

\* An arrangement with no property but its id.
BareArrangement(id) ==
  [ id |-> id, isDefault |-> None, key |-> None, tempo |-> None, duration |-> None,
    source |-> None, sourceReference |-> None, description |-> None ]

\* A song with no property but its id.
BareSong(id) ==
  [ id |-> id, name |-> None, author |-> None, copyright |-> None, ccli |-> None,
    category |-> None, tags |-> None, arrangements |-> None ]

\* Mutant: the last arrangement marked default is preferred.
getDefaultArrangementLast(song) ==
  IF song.arrangements = None \/ song.arrangements[1] = <<>> THEN None
  ELSE LET list == song.arrangements[1]
           marked == {i \in DOMAIN list : list[i].isDefault = Some(TRUE)}
       IN IF marked # {}
          THEN Some(list[CHOOSE i \in marked : \A j \in marked : j <= i])
          ELSE Some(list[1])

\* getDefaultArrangement: null without arrangements, else
\* arrangements.find(a => a.isDefault) || arrangements[0].
getDefaultArrangement(song) ==
  IF song.arrangements = None \/ song.arrangements[1] = <<>> THEN None
  ELSE LET list == song.arrangements[1]
           marked == {i \in DOMAIN list : list[i].isDefault = Some(TRUE)}
       IN IF marked # {}
          THEN Some(list[CHOOSE i \in marked : \A j \in marked : i <= j])
          ELSE Some(list[1])

\* names.join(', '); an undefined name joins as ''.
RECURSIVE Join(_)
Join(names) ==
  IF names = <<>> THEN ""
  ELSE IF Len(names) = 1 THEN OrText(names[1], "")
  ELSE OrText(names[1], "") \o ", " \o Join(Tail(names))

\* a % b of JavaScript for b > 0: the remainder has the sign of a.
JsRemainder(a, b) == IF a >= 0 THEN a % b ELSE -((-a) % b)

\* text.padStart(2, '0')
PadStart2(text) == IF Len(text) >= 2 THEN text ELSE "0" \o text

\* The 'source' detail: a string source as it is, the name of a source
\* object; src is [isString, text, name].
SourceText(src) ==
  IF src = None THEN ""
  ELSE IF src[1].isString THEN src[1].text
  ELSE OrText(src[1].name, "")

\* `${minutes}:${seconds.toString().padStart(2, '0')}`
DurationText(d) ==
  ToString(d \div 60) \o ":" \o PadStart2(ToString(JsRemainder(d, 60)))

\* getDetailValue(song, detailId): the text of one cell, and whether the
\* call threw.
getDetailValue(song, detailId) ==
  LET arrangement == getDefaultArrangement(song)
      ofArrangement(field) == OptionalChain(arrangement, field)
      text(val) == [raised |-> FALSE, value |-> val]
  IN CASE detailId = "author" -> text(OrText(song.author, ""))
       [] detailId = "copyright" ->
            \* "(c) " stands for the copyright sign and the blank after it
            text(IF TruthyText(song.copyright) THEN "(c) " \o song.copyright[1] ELSE "")
       [] detailId = "ccli" ->
            text(IF TruthyText(song.ccli) THEN "CCLI: " \o song.ccli[1] ELSE "")
       [] detailId = "category" ->
            LET r == OptionalChain(song.category, "name")
            IN [raised |-> r.raised, value |-> OrText(r.value, "")]
       [] detailId = "name" -> text(OrText(song.name, "Untitled"))
       [] detailId = "tags" ->
            text(IF song.tags # None /\ Len(song.tags[1]) > 0
                 THEN Join([i \in DOMAIN song.tags[1] |-> song.tags[1][i].name])
                 ELSE "")
       [] detailId = "source" ->
            text(IF arrangement # None
                    /\ arrangement[1].source # None
                    /\ (arrangement[1].source[1].isString => arrangement[1].source[1].text # "")
                 THEN SourceText(arrangement[1].source)
                 ELSE "")
       [] detailId \in {"sourceReference", "key", "description"} ->
            LET r == ofArrangement(detailId)
            IN [raised |-> r.raised, value |-> OrText(r.value, "")]
       [] detailId = "tempo" ->
            LET r == ofArrangement("tempo")
            IN [raised |-> r.raised,
                value |-> IF TruthyNumber(r.value) THEN ToString(r.value[1]) \o " BPM" ELSE ""]
       [] detailId = "duration" ->
            LET r == ofArrangement("duration")
            IN [raised |-> r.raised,
                value |-> IF TruthyNumber(r.value) THEN DurationText(r.value[1]) ELSE ""]
       [] OTHER -> text("")

\* ------------------------------------------------------------ PDF export

\* The song names of the model in the order localeCompare puts them, each
\* with its charAt(0).toUpperCase().
NamePool ==
  << [text |-> "", initial |-> ""],
     [text |-> "Amazing Grace", initial |-> "A"],
     [text |-> "amen", initial |-> "A"],
     [text |-> "Amen", initial |-> "A"],
     [text |-> "Be Thou My Vision", initial |-> "B"],
     [text |-> "Cornerstone", initial |-> "C"] >>

NameRank(text) == CHOOSE i \in DOMAIN NamePool : NamePool[i].text = text

\* a.localeCompare(b): negative, zero or positive.
localeCompare(a, b) == NameRank(a) - NameRank(b)

\* songName.charAt(0).toUpperCase()
Initial(text) == NamePool[NameRank(text)].initial

\* Where a stable sort puts `song` into a sorted list: behind the songs that
\* do not compare greater.
RECURSIVE InsertByName(_, _)
InsertByName(sorted, song) ==
  IF sorted = <<>> THEN <<song>>
  ELSE IF localeCompare(OrText(song.name, ""), OrText(Head(sorted).name, "")) < 0
  THEN <<song>> \o sorted
  ELSE <<Head(sorted)>> \o InsertByName(Tail(sorted), song)

\* Mutant: the list is left in input order.
KeepOrder(list) == list

\* [...songs].sort((a, b) => (a.name || '').localeCompare(b.name || ''))
RECURSIVE SortByName(_)
SortByName(list) ==
  IF list = <<>> THEN <<>>
  ELSE InsertByName(SortByName(SubSeq(list, 1, Len(list) - 1)), list[Len(list)])

\* The empty row pushed at a change of the initial letter.
SpacerRow(selectedDetails) ==
  [ spacer |-> TRUE, song |-> BareSong(0),
    cells |-> [i \in DOMAIN selectedDetails |->
                 [text |-> " ", fontSize |-> 6, bold |-> FALSE, italics |-> FALSE]] ]

\* The row of a song: one cell per selected detail.
SongRow(song, selectedDetails) ==
  [ spacer |-> FALSE, song |-> song,
    cells |-> [i \in DOMAIN selectedDetails |->
                 [text |-> getDetailValue(song, selectedDetails[i].id).value,
                  fontSize |-> selectedDetails[i].fontSize,
                  bold |-> selectedDetails[i].bold,
                  italics |-> selectedDetails[i].italic]] ]

\* sortedSongs.forEach((song, index) => ...), from the position `index` on
\* (1 is the first), lastInitial being the initial of the song before.
RECURSIVE TableBody(_, _, _, _, _)
TableBody(sortedSongs, index, lastInitial, selectedDetails, alphabeticalGrouping) ==
  IF index > Len(sortedSongs) THEN <<>>
  ELSE LET song == sortedSongs[index]
           currentInitial == Initial(OrText(song.name, ""))
           emptyRow ==
             IF alphabeticalGrouping /\ index > 1
                /\ currentInitial # lastInitial /\ currentInitial # ""
             THEN <<SpacerRow(selectedDetails)>> ELSE <<>>
       IN emptyRow \o <<SongRow(song, selectedDetails)>>
          \o TableBody(sortedSongs, index + 1, currentInitial, selectedDetails,
                       alphabeticalGrouping)

\* Mutant: the table is sorted and spaced whatever the flag says.
formatSongsTableGrouped(list, selectedDetails, alphabeticalGrouping) ==
  [ widths |-> [i \in DOMAIN selectedDetails |->
                  IF selectedDetails[i].id = "name" THEN "*" ELSE "auto"],
    body |-> TableBody(SortByName(list), 1, "", selectedDetails, TRUE) ]

\* formatSongsTable(songs, selectedDetails, alphabeticalGrouping)
formatSongsTable(list, selectedDetails, alphabeticalGrouping) ==
  LET sortedSongs == IF alphabeticalGrouping THEN SortByName(list) ELSE list
  IN [ widths |-> [i \in DOMAIN selectedDetails |->
                     IF selectedDetails[i].id = "name" THEN "*" ELSE "auto"],
       body |-> TableBody(sortedSongs, 1, "", selectedDetails, alphabeticalGrouping) ]

\* formatTagHeader(tagName, style): a text, or a one-cell table when the
\* header is boxed; the boxed cell carries no decoration.
formatTagHeader(tagName, style) ==
  [ text |-> tagName, fontSize |-> style.fontSize, bold |-> style.bold,
    italics |-> style.italic, alignment |-> style.alignment,
    decoration |-> IF style.underline /\ ~style.inBox THEN "underline" ELSE "none",
    boxed |-> style.inBox ]

\* songs.filter(song => song.tags && song.tags.some(t => t.id === tag.id))
SongsWithTag(list, tag) ==
  SelectSeq(list, LAMBDA song :
    song.tags # None /\ \E i \in DOMAIN song.tags[1] : song.tags[1][i].id = tag.id)

\* Mutant: a tag without songs gets an entry as well.
RECURSIVE groupSongsByTagsKeepEmpty(_, _)
groupSongsByTagsKeepEmpty(list, selectedTags) ==
  IF selectedTags = <<>> THEN <<>>
  ELSE LET front == SubSeq(selectedTags, 1, Len(selectedTags) - 1)
           tag == selectedTags[Len(selectedTags)]
       IN MapSet(groupSongsByTagsKeepEmpty(list, front), tag.name, SongsWithTag(list, tag))

\* groupSongsByTags(songs, selectedTags): a Map from tag name to the songs of
\* the tag, one songsByTag.set(tag.name, tagSongs) per tag that has songs.
RECURSIVE groupSongsByTags(_, _)
groupSongsByTags(list, selectedTags) ==
  IF selectedTags = <<>> THEN <<>>
  ELSE LET front == SubSeq(selectedTags, 1, Len(selectedTags) - 1)
           tag == selectedTags[Len(selectedTags)]
           tagSongs == SongsWithTag(list, tag)
       IN IF Len(tagSongs) > 0
          THEN MapSet(groupSongsByTags(list, front), tag.name, tagSongs)
          ELSE groupSongsByTags(list, front)

\* The first selected tag of the name: selectedTags.find(t => t.name === tagName).
FindByName(selectedTags, tagName) ==
  IF \E i \in DOMAIN selectedTags : selectedTags[i].name = tagName
  THEN Some(selectedTags[CHOOSE i \in DOMAIN selectedTags :
                           /\ selectedTags[i].name = tagName
                           /\ \A j \in 1..(i - 1) : selectedTags[j].name # tagName])
  ELSE None

\* What generatePDF pushes for one section: the optional page break, the
\* header and the table.  `kind` names the branch that pushed it, `songs` and
\* `useGrouping` are the arguments its table was formatted with.
Section(kind, pageBreak, title, list, useGrouping, options) ==
  [ kind |-> kind, pageBreak |-> pageBreak,
    header |-> formatTagHeader(title, options.headerStyle),
    songs |-> list, useGrouping |-> useGrouping,
    table |-> formatSongsTable(list, options.selectedDetails, useGrouping) ]

\* generatePDF(options): the content of the document definition, section by
\* section.
generatePDF(options) ==
  LET songsByTag == groupSongsByTags(options.songs, options.selectedTags)
      grouping(context) == MapGet(options.alphabeticalGroupingPerContext, context, FALSE)
      allSongs ==
        IF options.includeAllSongsList
        THEN <<Section("allSongs", FALSE, "Alle Lieder", options.songs,
                       grouping("allSongs"), options)>>
        ELSE <<>>
      tagSection(i) ==
        LET tagName == songsByTag[i].key
            tag == FindByName(options.selectedTags, tagName)
            useGrouping == IF tag # None THEN grouping(TagContext(tag[1].id)) ELSE FALSE
        IN Section("tag", options.includeAllSongsList \/ i > 1, tagName,
                   songsByTag[i].value, useGrouping, options)
      rest ==
        IF Len(options.selectedTags) > 0 /\ Len(songsByTag) > 0
        THEN [i \in DOMAIN songsByTag |-> tagSection(i)]
        ELSE IF ~options.includeAllSongsList
        THEN <<Section("fallback", FALSE, "All Songs", options.songs,
                       grouping("allSongs"), options)>>
        ELSE <<>>
  IN allSongs \o rest

\* ------------------------------------------------- Spec: a session of main.ts

\* Gestures (clicks, changes, drags) of one session.
MaxEvents == 2

\* Settings imports of one session.
MaxImports == 1

\* The rows of a list whose checkboxes the user reaches for.
MaxRow == 5

\* The rows of a list the user drags, drags over, or formats.
MaxReach == 3

Min(a, b) == IF a < b THEN a ELSE b

Rows(dom) == 1..Min(MaxRow, Len(dom))

Near(dom) == 1..Min(MaxReach, Len(dom))

\* The tag catalogs of the sessions: none, and the largest.
SessionCatalogs == {<<>>, SubSeq(TagPool, 1, NumTags)}

\* Song lists of a server; category 0: the song has no category.
SessionTag(i) == [id |-> TagPool[i].id, name |-> Some(TagPool[i].name)]

SessionSong(id, name, category, tagList) ==
  [BareSong(id) EXCEPT !.name = Some(name), !.category = category, !.tags = Some(tagList)]

SongLists ==
  { << SessionSong(1, "Cornerstone", Some([id |-> 10, name |-> Some("Hymns")]),
                   <<SessionTag(1)>>),
       SessionSong(2, "Be Thou My Vision", Some([id |-> 20, name |-> Some("Songs")]),
                   <<SessionTag(2), SessionTag(3)>>) >>,
    << SessionSong(1, "Cornerstone", Some([id |-> 10, name |-> Some("Hymns")]),
                   <<SessionTag(1)>>),
       SessionSong(3, "Amazing Grace", None, <<>>) >> }

\* The options of a .font-size-select.
FontSizeOptions == {8, 9, 10, 11, 12, 13, 14, 16}

\* The sizes the user picks in a .font-size-select.
FontSizeInputs == {8, 14}

\* What the user types into #headerFontSize; 0: text parseInt makes NaN of.
HeaderFontSizeInputs == {0, 12}

\* The .tag-item elements of the page template: every tag checked, no
\* grouping.
InitialTagDom(catalog) ==
  [i \in DOMAIN catalog |-> [id |-> catalog[i].id, checked |-> TRUE, alpha |-> FALSE]]

\* The .detail-item elements of the page template.
InitialDetailDom(selected) ==
  [i \in DOMAIN availableDetails |->
     [id |-> availableDetails[i].id,
      checked |-> SetHas(selected, availableDetails[i].id) \/ availableDetails[i].id = "name",
      fontSize |-> 11]]

\* updateDetailsList: one .detail-item per entry of orderedDetails.
updateDetailsList(s) ==
  [i \in DOMAIN s.orderedDetails |->
     LET id == s.orderedDetails[i].id
         formatting == MapGet(s.detailFormatting, id, DefaultFormatting)
     IN [id |-> id,
         checked |-> SetHas(s.selectedDetails, id) \/ id = "name",
         fontSize |-> IF formatting.fontSize \in FontSizeOptions
                      THEN formatting.fontSize ELSE 8]]

\* Whether #selectAllTagsCheckbox is a descendant of #tagListContainer: in
\* the page template it is in a label before that container.
SelectAllInsideTagList == FALSE

\* updateTagsList: the .tag-item elements are removed; the new ones go after
\* the element tagsContainer.querySelector('#selectAllTagsCheckbox') finds,
\* and nowhere when it finds none.
updateTagsList(s) ==
  IF SelectAllInsideTagList
  THEN [i \in DOMAIN s.orderedTags |->
          [id |-> s.orderedTags[i].id,
           checked |-> SetHas(s.selectedTagIds, s.orderedTags[i].id),
           alpha |-> MapGet(s.alphabeticalGroupingPerContext,
                            TagContext(s.orderedTags[i].id), FALSE)]]
  ELSE <<>>

InitialPage ==
  [ loaded |-> TRUE,
    categoryChecked |-> [i \in DOMAIN categories |-> TRUE],
    allSongsCheckbox |-> TRUE,
    allSongsAlpha |-> FALSE,
    selectAllTagsCheckbox |-> TRUE,
    headerAlignment |-> "left",
    headerFontSize |-> 16,
    headerBold |-> TRUE,
    headerItalic |-> FALSE,
    headerUnderline |-> FALSE,
    headerInBox |-> FALSE ]

\* The page after it has loaded tags, master data and songs.
Init ==
  /\ \E catalog \in SessionCatalogs :
       /\ state = InitialState(catalog)
       /\ tagDom = InitialTagDom(catalog)
  /\ songs \in SongLists
  /\ detail = NoDetail
  /\ pdf = NoPdf
  /\ built = NoBuilt
  /\ heap = NoHeap
  /\ load = NoLoad
  /\ detailDom = InitialDetailDom(<<"name", "author", "category">>)
  /\ page = InitialPage
  /\ doc = EmptyDoc
  /\ pre = state
  /\ phase = "load"
  /\ raised = FALSE
  /\ file = NoFile
  /\ alertMsg = "none"
  /\ draggedDetailElement = 0
  /\ draggedTagElement = 0
  /\ settingsFile = NoFile
  /\ exported = NoExport
  /\ nEvents = 0
  /\ nImports = 0

\* No drag is under way: the user can click.
Idle == draggedDetailElement = 0 /\ draggedTagElement = 0

\* A gesture begins.
Gesture ==
  /\ Idle
  /\ nEvents < MaxEvents
  /\ nEvents' = nEvents + 1

importVars == <<doc, pre, raised, file, nImports>>

\* .category-checkbox change
CategoryCheckboxChange(i) ==
  /\ Gesture
  /\ LET checked == ~page.categoryChecked[i]
         categoryId == categories[i].id
     IN /\ page' = [page EXCEPT !.categoryChecked[i] = checked]
        /\ state' = [state EXCEPT !.selectedCategoryIds =
                       IF checked THEN SetAdd(@, categoryId) ELSE SetDelete(@, categoryId)]
  /\ phase' = "categoryCheckbox"
  /\ alertMsg' = "none"
  /\ UNCHANGED <<importVars, detailDom, tagDom, songs, built, heap, load, detail, pdf, draggedDetailElement,
                 draggedTagElement, settingsFile, exported>>

\* #allSongsCheckbox change
AllSongsCheckboxChange ==
  /\ Gesture
  /\ page' = [page EXCEPT !.allSongsCheckbox = ~@]
  /\ state' = [state EXCEPT !.includeAllSongsList = ~page.allSongsCheckbox]
  /\ phase' = "allSongsCheckbox"
  /\ alertMsg' = "none"
  /\ UNCHANGED <<importVars, detailDom, tagDom, songs, built, heap, load, detail, pdf, draggedDetailElement,
                 draggedTagElement, settingsFile, exported>>

\* .alpha-group-checkbox change, on the checkbox of "Alle Lieder"
AllSongsAlphaChange ==
  /\ Gesture
  /\ page' = [page EXCEPT !.allSongsAlpha = ~@]
  /\ state' = [state EXCEPT !.alphabeticalGroupingPerContext =
                 MapSet(@, "allSongs", ~page.allSongsAlpha)]
  /\ phase' = "alphaGroupCheckbox"
  /\ alertMsg' = "none"
  /\ UNCHANGED <<importVars, detailDom, tagDom, songs, built, heap, load, detail, pdf, draggedDetailElement,
                 draggedTagElement, settingsFile, exported>>

\* .alpha-group-checkbox change, on the checkbox of a tag item
TagAlphaChange(i) ==
  /\ Gesture
  /\ i \in Rows(tagDom)
  /\ tagDom' = [tagDom EXCEPT ![i].alpha = ~@]
  /\ state' = [state EXCEPT !.alphabeticalGroupingPerContext =
                 MapSet(@, TagContext(tagDom[i].id), ~tagDom[i].alpha)]
  /\ phase' = "alphaGroupCheckbox"
  /\ alertMsg' = "none"
  /\ UNCHANGED <<importVars, detailDom, page, songs, built, heap, load, detail, pdf, draggedDetailElement,
                 draggedTagElement, settingsFile, exported>>

\* forEach(id => set.delete(id))
RECURSIVE DeleteAll(_, _)
DeleteAll(set, elems) ==
  IF elems = <<>> THEN set ELSE DeleteAll(SetDelete(set, Head(elems)), Tail(elems))

\* #selectAllTagsCheckbox change: every .tag-checkbox of the page follows.
SelectAllTagsChange ==
  /\ Gesture
  /\ LET isChecked == ~page.selectAllTagsCheckbox
     IN /\ page' = [page EXCEPT !.selectAllTagsCheckbox = isChecked]
        /\ tagDom' = [i \in DOMAIN tagDom |-> [tagDom[i] EXCEPT !.checked = isChecked]]
        /\ state' = [state EXCEPT !.selectedTagIds =
                       IF isChecked THEN AddAll(@, Ids(tagDom)) ELSE DeleteAll(@, Ids(tagDom))]
  /\ phase' = "selectAllTags"
  /\ alertMsg' = "none"
  /\ UNCHANGED <<importVars, detailDom, songs, built, heap, load, detail, pdf, draggedDetailElement,
                 draggedTagElement, settingsFile, exported>>

\* .tag-checkbox change
TagCheckboxChange(i) ==
  /\ Gesture
  /\ i \in Rows(tagDom)
  /\ LET checked == ~tagDom[i].checked
         tagId == tagDom[i].id
         dom == [tagDom EXCEPT ![i].checked = checked]
     IN /\ tagDom' = dom
        /\ state' = [state EXCEPT !.selectedTagIds =
                       IF checked THEN SetAdd(@, tagId) ELSE SetDelete(@, tagId)]
        /\ page' = [page EXCEPT !.selectAllTagsCheckbox = \A k \in DOMAIN dom : dom[k].checked]
  /\ phase' = "tagCheckbox"
  /\ alertMsg' = "none"
  /\ UNCHANGED <<importVars, detailDom, songs, built, heap, load, detail, pdf, draggedDetailElement,
                 draggedTagElement, settingsFile, exported>>

\* insertBefore(dragged, target.nextSibling) when the dragged element is
\* above the target, insertBefore(dragged, target) when it is below: either
\* way the element at position d ends at position j.
Move(dom, d, j) ==
  LET rest == SubSeq(dom, 1, d - 1) \o SubSeq(dom, d + 1, Len(dom))
  IN SubSeq(rest, 1, j - 1) \o <<dom[d]>> \o SubSeq(rest, j, Len(rest))

\* .tag-item dragstart
TagDragStart(i) ==
  /\ Gesture
  /\ i \in Near(tagDom)
  /\ draggedTagElement' = i
  /\ phase' = "tagDragStart"
  /\ alertMsg' = "none"
  /\ UNCHANGED <<state, importVars, detailDom, tagDom, page, songs, built, heap, load, detail, pdf,
                 draggedDetailElement, settingsFile, exported>>

\* .tag-item dragover, on the element at position j
TagDragOver(j) ==
  /\ draggedTagElement # 0
  /\ phase \in {"tagDragStart", "tagDragOver"}
  /\ j \in Near(tagDom)
  /\ j # draggedTagElement
  /\ tagDom' = Move(tagDom, draggedTagElement, j)
  /\ draggedTagElement' = j
  /\ phase' = "tagDragOver"
  /\ UNCHANGED <<state, importVars, alertMsg, detailDom, page, songs, built, heap, load, detail, pdf,
                 draggedDetailElement, settingsFile, exported, nEvents>>

\* .tag-item drop: orderedTags is rebuilt from the elements of the page.
TagDrop ==
  /\ draggedTagElement # 0
  /\ phase \in {"tagDragStart", "tagDragOver"}
  /\ state' = [state EXCEPT !.orderedTags = PushKnown(Ids(tagDom), state.tags, <<>>)]
  /\ phase' = "tagDrop"
  /\ UNCHANGED <<importVars, alertMsg, detailDom, tagDom, page, songs, built, heap, load, detail, pdf,
                 draggedDetailElement, draggedTagElement, settingsFile, exported, nEvents>>

\* .tag-item dragend
TagDragEnd ==
  /\ draggedTagElement # 0
  /\ draggedTagElement' = 0
  /\ phase' = "tagDragEnd"
  /\ UNCHANGED <<state, importVars, alertMsg, detailDom, tagDom, page, songs, built, heap, load, detail, pdf,
                 draggedDetailElement, settingsFile, exported, nEvents>>

\* .detail-checkbox change; the checkbox of "name" is disabled.
DetailCheckboxChange(i) ==
  /\ Gesture
  /\ i \in Rows(detailDom)
  /\ detailDom[i].id # "name"
  /\ LET checked == ~detailDom[i].checked
         detailId == detailDom[i].id
     IN IF checked /\ Len(state.selectedDetails) >= 4
        THEN /\ alertMsg' = "Max 3 Liedinfos"
             /\ UNCHANGED <<state, detailDom>>
        ELSE /\ alertMsg' = "none"
             /\ detailDom' = [detailDom EXCEPT ![i].checked = checked]
             /\ state' = [state EXCEPT !.selectedDetails =
                            IF checked THEN SetAdd(@, detailId) ELSE SetDelete(@, detailId)]
  /\ phase' = "detailCheckbox"
  /\ UNCHANGED <<importVars, tagDom, page, songs, built, heap, load, detail, pdf, draggedDetailElement,
                 draggedTagElement, settingsFile, exported>>

\* The formatting of a detail with one field replaced, when the map has the
\* detail (if (formatting) ...).
SetFormatting(map, detailId, field, val) ==
  IF MapHas(map, detailId)
  THEN MapSet(map, detailId, [MapGet(map, detailId, DefaultFormatting) EXCEPT ![field] = val])
  ELSE map

\* .bold-btn click
BoldClick(i) ==
  /\ Gesture
  /\ i \in Near(detailDom)
  /\ LET detailId == detailDom[i].id
         formatting == MapGet(state.detailFormatting, detailId, DefaultFormatting)
     IN state' = [state EXCEPT !.detailFormatting =
                    SetFormatting(@, detailId, "bold", ~formatting.bold)]
  /\ phase' = "boldBtn"
  /\ alertMsg' = "none"
  /\ UNCHANGED <<importVars, detailDom, tagDom, page, songs, built, heap, load, detail, pdf, draggedDetailElement,
                 draggedTagElement, settingsFile, exported>>

\* .italic-btn click
ItalicClick(i) ==
  /\ Gesture
  /\ i \in Near(detailDom)
  /\ LET detailId == detailDom[i].id
         formatting == MapGet(state.detailFormatting, detailId, DefaultFormatting)
     IN state' = [state EXCEPT !.detailFormatting =
                    SetFormatting(@, detailId, "italic", ~formatting.italic)]
  /\ phase' = "italicBtn"
  /\ alertMsg' = "none"
  /\ UNCHANGED <<importVars, detailDom, tagDom, page, songs, built, heap, load, detail, pdf, draggedDetailElement,
                 draggedTagElement, settingsFile, exported>>

\* .font-size-select change
FontSizeChange(i, size) ==
  /\ Gesture
  /\ i \in Near(detailDom)
  /\ size # detailDom[i].fontSize
  /\ detailDom' = [detailDom EXCEPT ![i].fontSize = size]
  /\ state' = [state EXCEPT !.detailFormatting =
                 SetFormatting(@, detailDom[i].id, "fontSize", size)]
  /\ phase' = "fontSizeSelect"
  /\ alertMsg' = "none"
  /\ UNCHANGED <<importVars, tagDom, page, songs, built, heap, load, detail, pdf, draggedDetailElement,
                 draggedTagElement, settingsFile, exported>>

\* .detail-item dragstart
DetailDragStart(i) ==
  /\ Gesture
  /\ i \in Near(detailDom)
  /\ draggedDetailElement' = i
  /\ phase' = "detailDragStart"
  /\ alertMsg' = "none"
  /\ UNCHANGED <<state, importVars, detailDom, tagDom, page, songs, built, heap, load, detail, pdf,
                 draggedTagElement, settingsFile, exported>>

\* .detail-item dragover, on the element at position j
DetailDragOver(j) ==
  /\ draggedDetailElement # 0
  /\ phase \in {"detailDragStart", "detailDragOver"}
  /\ j \in Near(detailDom)
  /\ j # draggedDetailElement
  /\ detailDom' = Move(detailDom, draggedDetailElement, j)
  /\ draggedDetailElement' = j
  /\ phase' = "detailDragOver"
  /\ UNCHANGED <<state, importVars, alertMsg, tagDom, page, songs, built, heap, load, detail, pdf,
                 draggedTagElement, settingsFile, exported, nEvents>>

\* .detail-item drop: orderedDetails is rebuilt from the elements of the page.
DetailDrop ==
  /\ draggedDetailElement # 0
  /\ phase \in {"detailDragStart", "detailDragOver"}
  /\ state' = [state EXCEPT !.orderedDetails =
                 PushKnown(Ids(detailDom), state.availableDetails, <<>>)]
  /\ phase' = "detailDrop"
  /\ UNCHANGED <<importVars, alertMsg, detailDom, tagDom, page, songs, built, heap, load, detail, pdf,
                 draggedDetailElement, draggedTagElement, settingsFile, exported, nEvents>>

\* .detail-item dragend
DetailDragEnd ==
  /\ draggedDetailElement # 0
  /\ draggedDetailElement' = 0
  /\ phase' = "detailDragEnd"
  /\ UNCHANGED <<state, importVars, alertMsg, detailDom, tagDom, page, songs, built, heap, load, detail, pdf,
                 draggedTagElement, settingsFile, exported, nEvents>>

\* #headerAlignment change: the user picks the other option.
HeaderAlignmentChange ==
  /\ Gesture
  /\ LET value == IF page.headerAlignment = "left" THEN "center" ELSE "left"
     IN /\ page' = [page EXCEPT !.headerAlignment = value]
        /\ state' = [state EXCEPT !.headerStyleOptions.alignment = value]
  /\ phase' = "headerAlignment"
  /\ alertMsg' = "none"
  /\ UNCHANGED <<importVars, detailDom, tagDom, songs, built, heap, load, detail, pdf, draggedDetailElement,
                 draggedTagElement, settingsFile, exported>>

\* #headerFontSize input: parseInt(target.value) || 16
HeaderFontSizeInput(n) ==
  /\ Gesture
  /\ n # page.headerFontSize
  /\ page' = [page EXCEPT !.headerFontSize = n]
  /\ state' = [state EXCEPT !.headerStyleOptions.fontSize = IF n = 0 THEN 16 ELSE n]
  /\ phase' = "headerFontSize"
  /\ alertMsg' = "none"
  /\ UNCHANGED <<importVars, detailDom, tagDom, songs, built, heap, load, detail, pdf, draggedDetailElement,
                 draggedTagElement, settingsFile, exported>>

\* #headerBold change
HeaderBoldChange ==
  /\ Gesture
  /\ page' = [page EXCEPT !.headerBold = ~@]
  /\ state' = [state EXCEPT !.headerStyleOptions.bold = ~page.headerBold]
  /\ phase' = "headerBold"
  /\ alertMsg' = "none"
  /\ UNCHANGED <<importVars, detailDom, tagDom, songs, built, heap, load, detail, pdf, draggedDetailElement,
                 draggedTagElement, settingsFile, exported>>

\* #headerItalic change
HeaderItalicChange ==
  /\ Gesture
  /\ page' = [page EXCEPT !.headerItalic = ~@]
  /\ state' = [state EXCEPT !.headerStyleOptions.italic = ~page.headerItalic]
  /\ phase' = "headerItalic"
  /\ alertMsg' = "none"
  /\ UNCHANGED <<importVars, detailDom, tagDom, songs, built, heap, load, detail, pdf, draggedDetailElement,
                 draggedTagElement, settingsFile, exported>>

\* #headerUnderline change
HeaderUnderlineChange ==
  /\ Gesture
  /\ page' = [page EXCEPT !.headerUnderline = ~@]
  /\ state' = [state EXCEPT !.headerStyleOptions.underline = ~page.headerUnderline]
  /\ phase' = "headerUnderline"
  /\ alertMsg' = "none"
  /\ UNCHANGED <<importVars, detailDom, tagDom, songs, built, heap, load, detail, pdf, draggedDetailElement,
                 draggedTagElement, settingsFile, exported>>

\* #headerInBox change
HeaderInBoxChange ==
  /\ Gesture
  /\ page' = [page EXCEPT !.headerInBox = ~@]
  /\ state' = [state EXCEPT !.headerStyleOptions.inBox = ~page.headerInBox]
  /\ phase' = "headerInBox"
  /\ alertMsg' = "none"
  /\ UNCHANGED <<importVars, detailDom, tagDom, songs, built, heap, load, detail, pdf, draggedDetailElement,
                 draggedTagElement, settingsFile, exported>>

\* #exportSettingsBtn click: the document of the current state is written
\* to a file (JSON.stringify of buildSettings(...)).
ExportSettingsClick ==
  /\ Gesture
  /\ settingsFile' = Obj(buildSettings(state, NoOptions, Now))
  /\ phase' = "exportSettings"
  /\ alertMsg' = "none"
  /\ UNCHANGED <<state, importVars, detailDom, tagDom, page, songs, built, heap, load, detail, pdf,
                 draggedDetailElement, draggedTagElement, exported>>

\* Text that JSON.parse rejects.
Unparseable == [t |-> "unparseable", p |-> "{", v |-> <<>>, o |-> NoProps]

\* Five selected details (one more than the checkboxes allow), "name" the
\* fifth of them in the order.
OverflowDoc ==
  [EmptyDoc EXCEPT
     !.selectedDetails = Arr(<<"author", "category", "ccli", "key", "name">>),
     !.orderedDetails = Arr(<<"author", "category", "ccli", "key", "name">>)]

\* A selection without "name".
NoNameDoc == [EmptyDoc EXCEPT !.selectedDetails = Arr(<<"author">>)]

\* Orders that name an entry twice.
DuplicateOrderDoc ==
  [EmptyDoc EXCEPT !.orderedTags = Arr(<<2, 2>>),
                   !.orderedDetails = Arr(<<"author", "author">>)]

\* A detailFormatting entry that is no [key, value] pair.
MalformedEntryDoc ==
  [EmptyDoc EXCEPT !.selectedCategoryIds = Arr(<<20>>),
                   !.detailFormatting = Arr(<<NotIterableFormatting>>)]

\* The documents of the files the user imports.
SessionDocs == {EmptyDoc, FullDoc, OverflowDoc, NoNameDoc, DuplicateOrderDoc, MalformedEntryDoc}

\* What JSON.parse makes of the files the user imports; the user may also
\* import the file the session exported.
FileInputs ==
  {Unparseable, Null, Num("7"), Str("x"), Bool(TRUE), ArrAsObj(NoProps)}
  \cup {Obj(d) : d \in SessionDocs}

\* The named properties applySettings reads of the parsed value: those of an
\* object; an array has none of them.
AsSettings(val) == IF val.t = "object" THEN val.o ELSE EmptyDoc

\* The controls of the page after a successful import.
SyncPage(s) ==
  [ loaded |-> TRUE,
    categoryChecked |-> [i \in DOMAIN categories |-> SetHas(s.selectedCategoryIds, categories[i].id)],
    allSongsCheckbox |-> s.includeAllSongsList,
    allSongsAlpha |-> MapGet(s.alphabeticalGroupingPerContext, "allSongs", FALSE),
    selectAllTagsCheckbox |->
      \A i \in DOMAIN s.orderedTags : SetHas(s.selectedTagIds, s.orderedTags[i].id),
    headerAlignment |-> s.headerStyleOptions.alignment,
    headerFontSize |-> s.headerStyleOptions.fontSize,
    headerBold |-> s.headerStyleOptions.bold,
    headerItalic |-> s.headerStyleOptions.italic,
    headerUnderline |-> s.headerStyleOptions.underline,
    headerInBox |-> s.headerStyleOptions.inBox ]

\* #importSettingsFile change, reader.onload: parse, validate, apply, then
\* bring the page in line with the state.
ImportSettingsFile(f) ==
  /\ Idle
  /\ f # NoFile
  /\ nImports < MaxImports
  /\ nImports' = nImports + 1
  /\ file' = f
  /\ pre' = state
  /\ phase' = "import"
  /\ IF f.t = "unparseable" \/ ~Truthy(f) \/ TypeOf(f) # "object"
     THEN /\ alertMsg' = "Error importing settings"
          /\ UNCHANGED <<state, doc, raised, detailDom, tagDom, page>>
     ELSE LET r == applySettings(AsSettings(f), state)
          IN /\ doc' = AsSettings(f)
             /\ state' = r.state
             /\ raised' = r.raised
             /\ IF r.raised
                THEN /\ alertMsg' = "Error importing settings"
                     /\ UNCHANGED <<detailDom, tagDom, page>>
                ELSE /\ alertMsg' = "Settings imported successfully!"
                     /\ page' = SyncPage(r.state)
                     /\ tagDom' = updateTagsList(r.state)
                     /\ detailDom' = updateDetailsList(r.state)
  /\ UNCHANGED <<songs, built, heap, load, detail, pdf, draggedDetailElement, draggedTagElement, settingsFile,
                 exported, nEvents>>

\* songs.filter(song => song.category?.id === undefined || selectedCategoryIds.has(...))
filteredSongs(list, selectedCategoryIds) ==
  SelectSeq(list, LAMBDA song :
    song.category = None \/ SetHas(selectedCategoryIds, song.category[1].id))

\* orderedTags.filter(tag => selectedTagIds.has(tag.id))
selectedTagsList(s) ==
  SelectSeq(s.orderedTags, LAMBDA tag : SetHas(s.selectedTagIds, tag.id))

\* Mutant: the selected details are not cut to four.
selectedDetailsInOrderUncut(s) ==
  LET picked == SelectSeq(s.orderedDetails, LAMBDA d : SetHas(s.selectedDetails, d.id))
  IN [i \in DOMAIN picked |->
        LET formatting == MapGet(s.detailFormatting, picked[i].id, DefaultFormatting)
        IN [id |-> picked[i].id, bold |-> formatting.bold, italic |-> formatting.italic,
            fontSize |-> formatting.fontSize]]

\* The columns of the export: the selected details in their order, the first
\* four of them, each with its formatting.
selectedDetailsInOrder(s) ==
  LET picked == SelectSeq(s.orderedDetails, LAMBDA d : SetHas(s.selectedDetails, d.id))
      sliced == SubSeq(picked, 1, Min(4, Len(picked)))
  IN [i \in DOMAIN sliced |->
        LET formatting == MapGet(s.detailFormatting, sliced[i].id, DefaultFormatting)
        IN [id |-> sliced[i].id, bold |-> formatting.bold, italic |-> formatting.italic,
            fontSize |-> formatting.fontSize]]

\* #exportBtn click
ExportClick ==
  /\ Gesture
  /\ phase' = "export"
  /\ IF filteredSongs(songs, state.selectedCategoryIds) = <<>>
     THEN /\ alertMsg' = "No songs to export"
          /\ UNCHANGED <<exported, pdf>>
     ELSE /\ alertMsg' = "none"
          /\ exported' =
               [ done |-> TRUE,
                 songs |-> filteredSongs(songs, state.selectedCategoryIds),
                 selectedTags |-> selectedTagsList(state),
                 selectedDetails |-> selectedDetailsInOrder(state),
                 includeAllSongsList |-> state.includeAllSongsList,
                 alphabeticalGroupingPerContext |-> state.alphabeticalGroupingPerContext,
                 headerStyle |-> state.headerStyleOptions ]
          /\ pdf' = [ done |-> TRUE,
                       options |-> [e \in DOMAIN exported' \ {"done"} |-> exported'[e]],
                       content |-> generatePDF(exported') ]
  /\ UNCHANGED <<state, importVars, detailDom, tagDom, page, songs, built, heap, load, detail,
                 draggedDetailElement, draggedTagElement, settingsFile>>

Next ==
  \/ \E i \in DOMAIN categories : CategoryCheckboxChange(i)
  \/ AllSongsCheckboxChange
  \/ AllSongsAlphaChange
  \/ \E i \in 1..MaxRow : TagAlphaChange(i)
  \/ SelectAllTagsChange
  \/ \E i \in 1..MaxRow : TagCheckboxChange(i)
  \/ \E i \in 1..MaxReach : TagDragStart(i)
  \/ \E j \in 1..MaxReach : TagDragOver(j)
  \/ TagDrop
  \/ TagDragEnd
  \/ \E i \in 1..MaxRow : DetailCheckboxChange(i)
  \/ \E i \in 1..MaxReach : BoldClick(i)
  \/ \E i \in 1..MaxReach : ItalicClick(i)
  \/ \E i \in 1..MaxReach, size \in FontSizeInputs : FontSizeChange(i, size)
  \/ \E i \in 1..MaxReach : DetailDragStart(i)
  \/ \E j \in 1..MaxReach : DetailDragOver(j)
  \/ DetailDrop
  \/ DetailDragEnd
  \/ HeaderAlignmentChange
  \/ \E n \in HeaderFontSizeInputs : HeaderFontSizeInput(n)
  \/ HeaderBoldChange
  \/ HeaderItalicChange
  \/ HeaderUnderlineChange
  \/ HeaderInBoxChange
  \/ ExportSettingsClick
  \/ \E f \in FileInputs : ImportSettingsFile(f)
  \/ ImportSettingsFile(settingsFile)
  \/ ExportClick

Spec == Init /\ [][Next]_vars

\* ------------------------------------------------- claims on the session

\* C3: in every state a session reaches by user actions and settings
\* imports, selectedDetails has at most 4 members.
C3_AtMostFourDetails == Len(state.selectedDetails) <= 4

\* C4: in every state a session reaches by user actions and settings
\* imports, "name" is a member of selectedDetails.
C4_NameAlwaysSelected == SetHas(state.selectedDetails, "name")

\* C5: column truncation.  When the export runs with 5 selected details,
\* "name" among them, it computes exactly 4 columns and "name" is one of
\* them, whatever the detail order.
C5_ColumnTruncation ==
  ( /\ phase = "export"
    /\ alertMsg = "none"
    /\ Len(state.selectedDetails) = 5
    /\ SetHas(state.selectedDetails, "name") ) =>
      /\ Len(exported.selectedDetails) = 4
      /\ \E i \in DOMAIN exported.selectedDetails : exported.selectedDetails[i].id = "name"

\* C6: in every state a session reaches by drag-and-drop reorders and
\* settings imports, orderedTags holds every catalog tag exactly once and
\* orderedDetails every one of the 12 detail fields exactly once.
C6_OrdersArePermutations ==
  /\ IsOrderOf(state.orderedTags, state.tags)
  /\ IsOrderOf(state.orderedDetails, state.availableDetails)

\* C9: when the imported top-level value is no JSON object (unparseable
\* text, null, a number, a string, a boolean, an array), the import shows an
\* error and leaves every part of the selection state as it was.
C9_NonObjectRejected ==
  (phase = "import" /\ file.t # "object") =>
    /\ alertMsg = "Error importing settings"
    /\ state = pre

\* The ids of the detail catalog.
DetailCatalogIds == Range(Ids(availableDetails))

MaxArrangements == 3

\* Largest tempo and duration of an arrangement, in either direction.
MaxNumber == 305

OptionalTexts == {None, Some(""), Some("x")}

\* Arrangement lists with every pattern of isDefault marks (absent, false,
\* true); an arrangement's id and key tell its position.
MarkedLists ==
  UNION { { [i \in 1..k |->
               [BareArrangement(i) EXCEPT !.isDefault = m[i],
                                          !.key = Some("key" \o ToString(i))]]
            : m \in [1..k -> {None, Some(FALSE), Some(TRUE)}] }
          : k \in 0..MaxArrangements }

\* One arrangement with a tempo, or with a duration.
NumberLists ==
  { <<[BareArrangement(1) EXCEPT !.tempo = Some(n)]>> : n \in (-MaxNumber)..MaxNumber }
  \cup { <<[BareArrangement(1) EXCEPT !.duration = Some(n)]>> : n \in (-MaxNumber)..MaxNumber }

SourceInputs ==
  { None,
    Some([isString |-> TRUE, text |-> "", name |-> None]),
    Some([isString |-> TRUE, text |-> "Hymnal", name |-> None]),
    Some([isString |-> FALSE, text |-> "", name |-> None]),
    Some([isString |-> FALSE, text |-> "", name |-> Some("Feiert Jesus")]) }

\* One arrangement with a source, a sourceReference or a description.
TextLists ==
  { <<[BareArrangement(1) EXCEPT !.source = x]>> : x \in SourceInputs }
  \cup { <<[BareArrangement(1) EXCEPT !.sourceReference = x]>> : x \in OptionalTexts }
  \cup { <<[BareArrangement(1) EXCEPT !.description = x]>> : x \in OptionalTexts }

TagListInputs ==
  { None, Some(<<>>),
    Some(<<[id |-> 1, name |-> Some("Praise")]>>),
    Some(<<[id |-> 1, name |-> Some("Praise")], [id |-> 4, name |-> Some("Worship")]>>),
    Some(<<[id |-> 7, name |-> None], [id |-> 4, name |-> Some("Worship")]>>) }

CategoryInputs ==
  { None, Some([id |-> 10, name |-> None]), Some([id |-> 10, name |-> Some("Hymns")]) }

\* A song with every property.
FullSong ==
  [ id |-> 2, name |-> Some("Amen"), author |-> Some("J. Newton"),
    copyright |-> Some("Public Domain"), ccli |-> Some("1234567"),
    category |-> Some([id |-> 10, name |-> Some("Hymns")]),
    tags |-> Some(<<[id |-> 1, name |-> Some("Praise")]>>),
    arrangements |->
      Some(<<[ id |-> 1, isDefault |-> Some(TRUE), key |-> Some("G"), tempo |-> Some(120),
               duration |-> Some(305),
               source |-> Some([isString |-> FALSE, text |-> "", name |-> Some("Feiert Jesus")]),
               sourceReference |-> Some("42"), description |-> Some("Standard") ]>>) ]

\* The songs that differ from `b` in one property.
SongSlices(b) ==
  {[b EXCEPT !.name = x] : x \in {None, Some(""), Some("Amen")}}
  \cup {[b EXCEPT !.author = x] : x \in OptionalTexts}
  \cup {[b EXCEPT !.copyright = x] : x \in OptionalTexts}
  \cup {[b EXCEPT !.ccli = x] : x \in OptionalTexts}
  \cup {[b EXCEPT !.category = x] : x \in CategoryInputs}
  \cup {[b EXCEPT !.tags = x] : x \in TagListInputs}
  \cup {[b EXCEPT !.arrangements = x] :
          x \in {None} \cup {Some(q) : q \in MarkedLists \cup NumberLists \cup TextLists}}

SongInputs == SongSlices(BareSong(1)) \cup SongSlices(FullSong)

\* The detail ids a cell is asked for; "unknown" is in no catalog.
DetailIdsAsked == DetailCatalogIds \cup {"unknown"}

InitDetail ==
  /\ detail \in {[done |-> FALSE, song |-> sg, detailId |-> id] :
                   sg \in SongInputs, id \in DetailIdsAsked}
  /\ state = InitialState(<<>>)
  /\ doc = EmptyDoc
  /\ pre = state
  /\ phase = "detail"
  /\ raised = FALSE
  /\ NoMain
  /\ pdf = NoPdf

\* getDefaultArrangement(song)
GetDefaultArrangement ==
  /\ phase = "detail"
  /\ ~detail.done
  /\ detail' = [ done |-> TRUE, call |-> "getDefaultArrangement", song |-> detail.song,
                 detailId |-> detail.detailId,
                 arrangement |-> getDefaultArrangement(detail.song) ]
  /\ UNCHANGED <<codecVars, file, alertMsg, detailDom, tagDom, page, songs, built, heap, load, pdf,
                 draggedDetailElement, draggedTagElement, settingsFile, exported,
                 nEvents, nImports>>

\* getDetailValue(song, detailId)
GetDetailValue ==
  /\ phase = "detail"
  /\ ~detail.done
  /\ detail' = [ done |-> TRUE, call |-> "getDetailValue", song |-> detail.song,
                 detailId |-> detail.detailId,
                 result |-> getDetailValue(detail.song, detail.detailId) ]
  /\ UNCHANGED <<codecVars, file, alertMsg, detailDom, tagDom, page, songs, built, heap, load, pdf,
                 draggedDetailElement, draggedTagElement, settingsFile, exported,
                 nEvents, nImports>>

NextDetail == GetDefaultArrangement \/ GetDetailValue

SpecDetail == InitDetail /\ [][NextDetail]_vars

\* ------------------------------------------- claims on the detail functions

\* C17: getDefaultArrangement returns none for a song without arrangements,
\* else the earliest arrangement whose isDefault is true, else the first
\* arrangement.
C17_DefaultArrangement ==
  (detail.done /\ detail.call = "getDefaultArrangement") =>
    LET list == IF detail.song.arrangements = None THEN <<>> ELSE detail.song.arrangements[1]
    IN IF list = <<>> THEN detail.arrangement = None
       ELSE IF \E i \in DOMAIN list : list[i].isDefault = Some(TRUE)
       THEN \E i \in DOMAIN list :
              /\ list[i].isDefault = Some(TRUE)
              /\ \A j \in 1..(i - 1) : list[j].isDefault # Some(TRUE)
              /\ detail.arrangement = Some(list[i])
       ELSE detail.arrangement = Some(list[1])

\* C17 witness: of three arrangements the second and the third are marked
\* default, and the second was returned.
C17_Witness ==
  /\ detail.done /\ detail.call = "getDefaultArrangement"
  /\ detail.song.arrangements # None
  /\ LET list == detail.song.arrangements[1]
     IN /\ Len(list) = 3
        /\ list[1].isDefault = Some(FALSE)
        /\ list[2].isDefault = Some(TRUE)
        /\ list[3].isDefault = Some(TRUE)
  /\ detail.arrangement # None
  /\ detail.arrangement[1].id = 2

\* The property `field` of the song's default arrangement, None without one.
OfDefaultArrangement(song, field) ==
  IF getDefaultArrangement(song) = None THEN None
  ELSE getDefaultArrangement(song)[1][field]

\* Seconds written with exactly two digits.
TwoDigits(n) == IF n < 10 THEN "0" \o ToString(n) ELSE ToString(n)

\* C18: for the 'duration' detail the text is minutes, a colon and the
\* two-digit seconds (minutes * 60 + seconds = d, seconds in 0..59) when the
\* default arrangement's duration d is a positive integer, and the empty
\* string for every other duration (absent, zero, negative).
C18_DurationText ==
  (detail.done /\ detail.call = "getDetailValue" /\ detail.detailId = "duration") =>
    LET d == OfDefaultArrangement(detail.song, "duration")
    IN IF d # None /\ d[1] > 0
       THEN \E m \in 0..MaxNumber, sec \in 0..59 :
              /\ m * 60 + sec = d[1]
              /\ detail.result.value = ToString(m) \o ":" \o TwoDigits(sec)
       ELSE detail.result.value = ""

\* C19: for the 'tempo' detail the text is "<value> BPM" exactly when the
\* default arrangement's tempo is positive, and the empty string for every
\* other tempo (absent, zero, negative) and without arrangements.
C19_TempoText ==
  (detail.done /\ detail.call = "getDetailValue" /\ detail.detailId = "tempo") =>
    LET t == OfDefaultArrangement(detail.song, "tempo")
    IN IF t # None /\ t[1] > 0
       THEN detail.result.value = ToString(t[1]) \o " BPM"
       ELSE detail.result.value = ""

\* Whether the song has no value for the detail `id`.
ValueAbsent(song, id) ==
  CASE id \in {"author", "copyright", "ccli"} -> song[id] = None
    [] id = "category" -> song.category = None \/ song.category[1].name = None
    [] id = "tags" -> song.tags = None
    [] id \in {"source", "sourceReference", "key", "tempo", "duration", "description"} ->
         OfDefaultArrangement(song, id) = None
    [] OTHER -> FALSE

\* C20: getDetailValue is total.  For every song and every detail id it
\* returns a string and does not raise; the string is empty for an unknown id
\* and for a known detail other than 'name' that has no value, and it is
\* 'Untitled' for an absent or empty name.
C20_Total ==
  (detail.done /\ detail.call = "getDetailValue") =>
    /\ ~detail.result.raised
    /\ detail.result.value \in STRING
    /\ detail.detailId \notin DetailCatalogIds => detail.result.value = ""
    /\ (detail.detailId = "name" /\ detail.song.name \in {None, Some("")}) =>
         detail.result.value = "Untitled"
    /\ (detail.detailId # "name" /\ ValueAbsent(detail.song, detail.detailId)) =>
         detail.result.value = ""

\* C20 witness: the category cell of a song without category, tags and
\* arrangements was computed.
C20_Witness ==
  /\ detail.done /\ detail.call = "getDetailValue"
  /\ detail.detailId = "category"
  /\ detail.song.category = None
  /\ detail.song.tags = None
  /\ detail.song.arrangements = None
  /\ ~detail.result.raised
  /\ detail.result.value = ""

\* ------------------------------------------------- SpecPdf: generatePDF alone

MaxSongs == 3

\* Songs of an export: names in every relation of collation and initial, a
\* song without a name, a song without tags, tags with the same name.
PdfSongs ==
  { [BareSong(1) EXCEPT !.name = Some("Cornerstone"), !.tags = Some(<<SessionTag(2)>>)],
    [BareSong(2) EXCEPT !.name = Some("amen"), !.tags = Some(<<SessionTag(3)>>)],
    [BareSong(3) EXCEPT !.name = Some("Amazing Grace"),
                        !.tags = Some(<<SessionTag(1), SessionTag(2)>>)],
    [BareSong(4) EXCEPT !.tags = Some(<<SessionTag(1)>>)],
    [BareSong(5) EXCEPT !.name = Some("Be Thou My Vision"), !.tags = Some(<<SessionTag(3)>>)],
    [BareSong(6) EXCEPT !.name = Some("Amen")] }

SongListInputs ==
  {q \in SeqsUpTo(PdfSongs, MaxSongs) : \A i, j \in DOMAIN q : i # j => q[i] # q[j]}

\* selectedTagsList: the selected tags in any order.
SelectedTagInputs ==
  {[i \in DOMAIN q |-> TagPool[q[i]]] : q \in SetsOver(1..NumTags)}

\* The columns and the header style of an export.
LayoutInputs ==
  { [ selectedDetails |->
        <<[id |-> "name", bold |-> FALSE, italic |-> FALSE, fontSize |-> 11]>>,
      headerStyle |-> DefaultHeaderStyle ],
    [ selectedDetails |->
        <<[id |-> "tags", bold |-> TRUE, italic |-> FALSE, fontSize |-> 9],
          [id |-> "name", bold |-> FALSE, italic |-> TRUE, fontSize |-> 11]>>,
      headerStyle |-> OtherHeaderStyle ] }

PdfGroupingMaps ==
  { <<>>,
    <<[key |-> "allSongs", value |-> TRUE]>>,
    <<[key |-> "allSongs", value |-> FALSE], [key |-> "tag_2", value |-> TRUE],
      [key |-> "tag_1", value |-> TRUE], [key |-> "tag_3", value |-> FALSE]>>,
    <<[key |-> "allSongs", value |-> TRUE], [key |-> "tag_2", value |-> TRUE],
      [key |-> "tag_1", value |-> TRUE], [key |-> "tag_3", value |-> TRUE]>>,
    <<[key |-> "tag_99", value |-> TRUE], [key |-> "allSongs", value |-> FALSE]>> }

ExportOptions(list, selectedTags, layout, includeAllSongsList, grouping) ==
  [ songs |-> list,
    selectedTags |-> selectedTags,
    selectedDetails |-> layout.selectedDetails,
    includeAllSongsList |-> includeAllSongsList,
    alphabeticalGroupingPerContext |-> grouping,
    headerStyle |-> layout.headerStyle ]

InitPdf ==
  /\ \E list \in SongListInputs, selectedTags \in SelectedTagInputs,
        layout \in LayoutInputs, includeAllSongsList \in BOOLEAN,
        grouping \in PdfGroupingMaps :
       pdf = [ done |-> FALSE,
               options |-> ExportOptions(list, selectedTags, layout,
                                         includeAllSongsList, grouping) ]
  /\ state = InitialState(<<>>)
  /\ doc = EmptyDoc
  /\ pre = state
  /\ phase = "pdf"
  /\ raised = FALSE
  /\ NoMain
  /\ detail = NoDetail

\* generatePDF(options)
GeneratePDF ==
  /\ phase = "pdf"
  /\ ~pdf.done
  /\ pdf' = [ done |-> TRUE, options |-> pdf.options,
              content |-> generatePDF(pdf.options) ]
  /\ UNCHANGED <<codecVars, file, alertMsg, detailDom, tagDom, page, songs, built, heap, load, detail,
                 draggedDetailElement, draggedTagElement, settingsFile, exported,
                 nEvents, nImports>>

NextPdf == GeneratePDF

SpecPdf == InitPdf /\ [][NextPdf]_vars

\* --------------------------------------------------- claims on the PDF export

\* The selected tags that at least one exported song carries, in the order
\* of the selection.
TagsWithSongs(options) ==
  SelectSeq(options.selectedTags, LAMBDA tag :
    \E i \in DOMAIN options.songs :
      /\ options.songs[i].tags # None
      /\ \E k \in DOMAIN options.songs[i].tags[1] :
           options.songs[i].tags[1][k].id = tag.id)

\* The songs of the export that carry the tag, as a set.
Carrying(options, tag) ==
  {options.songs[i] : i \in {k \in DOMAIN options.songs :
     /\ options.songs[k].tags # None
     /\ \E t \in DOMAIN options.songs[k].tags[1] :
          options.songs[k].tags[1][t].id = tag.id}}

TagSections(content) == SelectSeq(content, LAMBDA section : section.kind = "tag")

\* The songs of the song rows of a table, top to bottom.
RowSongs(table) ==
  LET songRows == SelectSeq(table.body, LAMBDA row : ~row.spacer)
  IN [i \in DOMAIN songRows |-> songRows[i].song]

\* A section shows the tag: its title is the tag's name and its song rows
\* are the songs carrying the tag, one row each.
ShowsTag(section, options, tag) ==
  /\ section.header.text = tag.name
  /\ Range(RowSongs(section.table)) = Carrying(options, tag)
  /\ Len(RowSongs(section.table)) = Cardinality(Carrying(options, tag))

\* C12: the tag sections of an export are exactly the selected tags that at
\* least one exported song carries: one section per such tag, titled with
\* the tag's name and holding exactly the songs that carry it, also when two
\* selected tags have the same name; a selected tag without songs gets none.
C12_TagSections ==
  pdf.done =>
    LET expected == TagsWithSongs(pdf.options)
        sections == TagSections(pdf.content)
    IN /\ Len(sections) = Len(expected)
       /\ \A i \in DOMAIN expected :
            \E j \in DOMAIN sections : ShowsTag(sections[j], pdf.options, expected[i])
       /\ \A j \in DOMAIN sections :
            \E i \in DOMAIN expected : ShowsTag(sections[j], pdf.options, expected[i])

\* The export has the fallback section and nothing else.
OnlyFallback ==
  /\ Len(pdf.content) = 1
  /\ pdf.content[1].kind = "fallback"
  /\ Range(RowSongs(pdf.content[1].table)) = Range(pdf.options.songs)
  /\ Len(RowSongs(pdf.content[1].table)) = Len(pdf.options.songs)

\* C13: when includeAllSongsList is false and no selected tag has a song
\* (none selected included) the export is exactly one section, the fallback
\* over the full song list; in every other case it has no fallback section;
\* an export always has at least one section.
C13_Fallback ==
  pdf.done =>
    /\ IF ~pdf.options.includeAllSongsList /\ TagsWithSongs(pdf.options) = <<>>
       THEN OnlyFallback
       ELSE \A i \in DOMAIN pdf.content : pdf.content[i].kind # "fallback"
    /\ Len(pdf.content) >= 1

\* Tags are selected, none of them has a song, and the fallback is the export.
C13_Witness ==
  /\ pdf.done
  /\ ~pdf.options.includeAllSongsList
  /\ Len(pdf.options.selectedTags) = 2
  /\ Len(pdf.options.songs) = 2
  /\ OnlyFallback

\* C14: the all-songs section, when includeAllSongsList is set, is the first
\* section and the only one of its kind; the tag sections follow in the
\* order of the selected tags that have a song, section i showing the i-th
\* of them.
C14_SectionOrder ==
  pdf.done =>
    LET expected == TagsWithSongs(pdf.options)
        content == pdf.content
        lead == IF pdf.options.includeAllSongsList THEN 1 ELSE 0
    IN /\ pdf.options.includeAllSongsList => content[1].kind = "allSongs"
       /\ \A i \in DOMAIN content : content[i].kind = "allSongs" => i = lead
       /\ expected # <<>> =>
            /\ Len(content) = lead + Len(expected)
            /\ \A i \in DOMAIN expected :
                 /\ content[lead + i].kind = "tag"
                 /\ ShowsTag(content[lead + i], pdf.options, expected[i])

\* The song of the nearest song row above row k.
RECURSIVE SongAbove(_, _)
SongAbove(body, k) ==
  IF ~body[k - 1].spacer THEN body[k - 1].song ELSE SongAbove(body, k - 1)

InitialOf(song) == IF song.name = None THEN "" ELSE Initial(song.name[1])

\* The rows of a grouped table: the songs of the section once each, in
\* ascending order of name, a spacer exactly before the song rows whose
\* initial differs from that of the song before.
GroupedRows(section) ==
  LET body == section.table.body
      shown == RowSongs(section.table)
  IN /\ Len(shown) = Len(section.songs)
     /\ Range(shown) = Range(section.songs)
     /\ \A i, j \in DOMAIN shown :
          i < j => localeCompare(OrText(shown[i].name, ""), OrText(shown[j].name, "")) <= 0
     /\ body # <<>> => ~body[1].spacer /\ ~body[Len(body)].spacer
     /\ \A k \in DOMAIN body :
          /\ (body[k].spacer /\ k > 1) => ~body[k - 1].spacer
          /\ (~body[k].spacer /\ k > 1 /\ ~body[k - 1].spacer) =>
               InitialOf(body[k].song) = InitialOf(body[k - 1].song)
          /\ (~body[k].spacer /\ k > 1 /\ body[k - 1].spacer) =>
               InitialOf(body[k].song) # InitialOf(SongAbove(body, k - 1))

\* C15: with grouping enabled for a section its song rows are its songs,
\* each exactly once, in ascending name order, and a spacer row stands before
\* a song row exactly when the song's uppercased first character differs
\* from the previous song's; none stands before the first song.
C15_GroupedRows ==
  pdf.done =>
    \A i \in DOMAIN pdf.content :
      pdf.content[i].useGrouping => GroupedRows(pdf.content[i])

\* A grouped section whose songs came unsorted: two of them share an initial
\* and follow each other without a spacer, the third is set off by one.
C15_Witness ==
  /\ pdf.done
  /\ \E i \in DOMAIN pdf.content :
       LET section == pdf.content[i]
           body == section.table.body
       IN /\ section.useGrouping
          /\ Len(section.songs) = 3
          /\ RowSongs(section.table) # section.songs
          /\ Len(body) = 4
          /\ body[3].spacer
          /\ InitialOf(body[1].song) = "A"
          /\ InitialOf(body[2].song) = "A"

\* C16: with grouping disabled for a section its rows are its songs in input
\* order, one row per song, and no spacer row.
C16_PlainRows ==
  pdf.done =>
    \A i \in DOMAIN pdf.content :
      ~pdf.content[i].useGrouping =>
        LET body == pdf.content[i].table.body
        IN /\ [k \in DOMAIN body |-> body[k].song] = pdf.content[i].songs
           /\ \A k \in DOMAIN body : ~body[k].spacer

\* An ungrouped section of three songs that are not in name order and change
\* their initial from row to row.
C16_Witness ==
  /\ pdf.done
  /\ \E i \in DOMAIN pdf.content :
       LET section == pdf.content[i]
       IN /\ ~section.useGrouping
          /\ Len(section.table.body) = 3
          /\ InitialOf(section.songs[1]) = "C"
          /\ InitialOf(section.songs[2]) = "A"
          /\ InitialOf(section.songs[3]) = "B"

\* ------------------------------------------------- claims on buildSettings

DocumentFields ==
  { "version", "timestamp", "selectedCategoryIds", "selectedTagIds", "orderedTags",
    "selectedDetails", "orderedDetails", "detailFormatting",
    "alphabeticalGroupingPerContext", "includeAllSongsList", "headerStyleOptions" }

\* The JSON array holds the members of the Set, each once.
MembersOf(arr, set) ==
  /\ arr.t = "array"
  /\ Len(arr.v) = Len(set)
  /\ Range(arr.v) = Range(set)

\* The JSON array holds the [key, value] entries of the Map, in its order.
EntriesOf(arr, map) ==
  /\ arr.t = "array"
  /\ Len(arr.v) = Len(map)
  /\ \A i \in DOMAIN map :
       /\ arr.v[i].iterable
       /\ arr.v[i].key = map[i].key
       /\ arr.v[i].value = map[i].value

\* C21: the document buildSettings returns has every field: version "1.0",
\* the caller's timestamp when one is given, the members of each selection
\* set as an array, both orders as the ids of the ordered lists in their
\* order, each map as the array of its entries, includeAllSongsList and the
\* header style as in the state; and the state is as it was.
C21_BuildSettings ==
  built.done =>
    LET d == built.document
        s == built.state
    IN /\ DOMAIN d = DocumentFields
       /\ d.version = Str("1.0")
       /\ built.options.timestamp # None => d.timestamp = Str(built.options.timestamp[1])
       /\ d.timestamp.t = "string"
       /\ MembersOf(d.selectedCategoryIds, s.selectedCategoryIds)
       /\ MembersOf(d.selectedTagIds, s.selectedTagIds)
       /\ MembersOf(d.selectedDetails, s.selectedDetails)
       /\ d.orderedTags = Arr([i \in DOMAIN s.orderedTags |-> s.orderedTags[i].id])
       /\ d.orderedDetails = Arr([i \in DOMAIN s.orderedDetails |-> s.orderedDetails[i].id])
       /\ EntriesOf(d.detailFormatting, s.detailFormatting)
       /\ EntriesOf(d.alphabeticalGroupingPerContext, s.alphabeticalGroupingPerContext)
       /\ d.includeAllSongsList = Bool(s.includeAllSongsList)
       /\ d.headerStyleOptions = Obj(s.headerStyleOptions)
       /\ state = s

\* A document built with a timestamp from a state whose tag order is not the
\* catalog's and whose maps have entries.
C21_Witness ==
  /\ built.done
  /\ built.options.timestamp = Some("2020-01-01T00:00:00.000Z")
  /\ built.document.timestamp = Str("2020-01-01T00:00:00.000Z")
  /\ Len(built.state.orderedTags) >= 2
  /\ built.state.orderedTags # built.state.tags
  /\ built.document.orderedTags.v[1] = built.state.tags[Len(built.state.tags)].id
  /\ Len(built.document.detailFormatting.v) >= 1
  /\ Len(built.document.alphabeticalGroupingPerContext.v) >= 1

\* ------------------------------------------- claims on the reconciliation

\* The ids of `ids` that name a catalog entry, each at its first occurrence.
RECURSIVE FirstOccurrences(_, _, _)
FirstOccurrences(ids, catalog, placed) ==
  IF ids = <<>> THEN placed
  ELSE FirstOccurrences(Tail(ids), catalog,
         IF (\E i \in DOMAIN catalog : catalog[i].id = Head(ids))
            /\ ~(\E j \in DOMAIN placed : placed[j] = Head(ids))
         THEN Append(placed, Head(ids)) ELSE placed)

\* The ids of the reconciled order: the named entries at their first
\* occurrence, then the entries not named, in catalog order.
ReconciledIds(ids, catalog) ==
  LET named == FirstOccurrences(ids, catalog, <<>>)
      others == SelectSeq(Ids(catalog), LAMBDA id : ~(\E j \in DOMAIN named : named[j] = id))
  IN named \o others

\* C22: the order applySettings writes for tags, and likewise for details,
\* is the catalog entries the imported array names, each at the position of
\* its first occurrence, followed by the catalog entries it does not name,
\* in catalog order.
C22_ReconciliationOrder ==
  phase = "applied" =>
    /\ (Truthy(doc.orderedTags) /\ IsArray(doc.orderedTags)) =>
         Ids(state.orderedTags) = ReconciledIds(doc.orderedTags.v, pre.tags)
    /\ (Truthy(doc.orderedDetails) /\ IsArray(doc.orderedDetails)) =>
         Ids(state.orderedDetails) = ReconciledIds(doc.orderedDetails.v, pre.availableDetails)

\* ------------------------------------------ claims on the columns of an export

\* C23: in every export, whatever order of the details the user dragged or
\* imported, the "name" column is the first column, and so the name of the
\* song the first cell of every song row.
C23_NameFirst ==
  pdf.done =>
    /\ Len(pdf.options.selectedDetails) >= 1
    /\ pdf.options.selectedDetails[1].id = "name"
    /\ \A i \in DOMAIN pdf.content :
         \A k \in DOMAIN pdf.content[i].table.body :
           LET row == pdf.content[i].table.body[k]
           IN /\ Len(row.cells) >= 1
              /\ ~row.spacer => row.cells[1].text = getDetailValue(row.song, "name").value

\* --------------------------- SpecShare: the objects state and documents share

\* The formatting objects of detailFormatting and the headerStyleOptions
\* object are mutated in place by the handlers of main.ts, and buildSettings
\* and applySettings pass them on as they are.  Here they live in heap.cell
\* and the Map, the header binding and the documents hold their addresses.

MaxSteps == 3

\* The details whose buttons are pressed.
SharedKeys == {"name", "tempo"}

\* detailFormatting as main.ts fills it: one object per catalog detail, at
\* the addresses 1..12; the headerStyleOptions object follows them.
InitialHeap ==
  [ done |-> TRUE,
    cell |-> [i \in DOMAIN availableDetails |-> DefaultFormatting] \o <<DefaultHeaderStyle>>,
    detailFormatting |->
      [i \in DOMAIN availableDetails |-> [key |-> availableDetails[i].id, value |-> i]],
    headerStyleOptions |-> Len(availableDetails) + 1,
    applied |-> None,
    appliedAs |-> None,
    steps |-> 0 ]

\* What a document says when it is read: every address replaced by the
\* object at it.
Deref(cell, document) ==
  [ detailFormatting |->
      [i \in DOMAIN document.detailFormatting |->
         [key |-> document.detailFormatting[i].key,
          value |-> cell[document.detailFormatting[i].value]]],
    headerStyleOptions |-> cell[document.headerStyleOptions] ]

\* The two fields of buildSettings that hand out objects:
\* Array.from(state.detailFormatting.entries()) and state.headerStyleOptions.
buildSettingsShared(h) ==
  [ detailFormatting |->
      [i \in DOMAIN h.detailFormatting |->
         [key |-> h.detailFormatting[i].key, value |-> h.detailFormatting[i].value]],
    headerStyleOptions |-> h.headerStyleOptions ]

\* Documents as JSON.parse returns them: detailFormatting entries and a
\* headerStyleOptions object, every object new.
ParsedDocuments ==
  { [ detailFormatting |-> <<[key |-> "name", value |-> BoldFormatting]>>,
      headerStyleOptions |-> OtherHeaderStyle ],
    [ detailFormatting |-> <<[key |-> "tempo", value |-> ItalicFormatting],
                             [key |-> "unknown", value |-> DefaultFormatting]>>,
      headerStyleOptions |-> DefaultHeaderStyle ] }

\* The state's detailFormatting and the heap after
\* state.detailFormatting.clear() and set(key, value) for the known keys of
\* the entries, the value objects of the document being at base + 1, ...
RECURSIVE SetKnownShared(_, _, _, _)
SetKnownShared(map, entries, base, k) ==
  IF k > Len(entries) THEN map
  ELSE SetKnownShared(IF FindById(availableDetails, entries[k].key) # 0
                      THEN MapSet(map, entries[k].key, base + k) ELSE map,
                      entries, base, k + 1)

SharedStep == heap.done /\ heap.steps < MaxSteps

\* What no step of this specification touches.
shareFrame ==
  <<codecVars, file, alertMsg, detailDom, tagDom, page, songs, detail, pdf, load,
    draggedDetailElement, draggedTagElement, settingsFile, exported, nEvents, nImports>>

\* const settings = buildSettings({...})
ShareBuild ==
  /\ SharedStep
  /\ built' = [ done |-> TRUE, document |-> buildSettingsShared(heap),
                returned |-> Deref(heap.cell, buildSettingsShared(heap)) ]
  /\ heap' = [heap EXCEPT !.steps = @ + 1]
  /\ UNCHANGED shareFrame

\* .bold-btn click: formatting = detailFormatting.get(detailId) and, if there
\* is one, formatting.bold = !formatting.bold
ShareBoldClick(key) ==
  /\ SharedStep
  /\ LET a == MapGet(heap.detailFormatting, key, 0)
     IN heap' = IF a # 0
                THEN [heap EXCEPT !.cell[a].bold = ~@, !.steps = @ + 1]
                ELSE [heap EXCEPT !.steps = @ + 1]
  /\ UNCHANGED <<built, shareFrame>>

\* .italic-btn click: formatting.italic = !formatting.italic
ShareItalicClick(key) ==
  /\ SharedStep
  /\ LET a == MapGet(heap.detailFormatting, key, 0)
     IN heap' = IF a # 0
                THEN [heap EXCEPT !.cell[a].italic = ~@, !.steps = @ + 1]
                ELSE [heap EXCEPT !.steps = @ + 1]
  /\ UNCHANGED <<built, shareFrame>>

\* .font-size-select change: formatting.fontSize = parseInt(target.value) || 11
ShareFontSizeChange(key, size) ==
  /\ SharedStep
  /\ LET a == MapGet(heap.detailFormatting, key, 0)
     IN heap' = IF a # 0
                THEN [heap EXCEPT !.cell[a].fontSize = size, !.steps = @ + 1]
                ELSE [heap EXCEPT !.steps = @ + 1]
  /\ UNCHANGED <<built, shareFrame>>

\* #headerBold change: headerStyleOptions.bold = target.checked
ShareHeaderBoldChange(checked) ==
  /\ SharedStep
  /\ heap' = [heap EXCEPT !.cell[heap.headerStyleOptions].bold = checked, !.steps = @ + 1]
  /\ UNCHANGED <<built, shareFrame>>

\* #headerAlignment change: headerStyleOptions.alignment = target.value
ShareHeaderAlignmentChange(value) ==
  /\ SharedStep
  /\ heap' = [heap EXCEPT !.cell[heap.headerStyleOptions].alignment = value,
                          !.steps = @ + 1]
  /\ UNCHANGED <<built, shareFrame>>

\* applySettings(settings, state) for a parsed document: the value objects of
\* its entries are set into the Map as they are, its header fields are
\* assigned to the headerStyleOptions object.
ShareApply(document) ==
  /\ SharedStep
  /\ LET base == Len(heap.cell)
         entries == document.detailFormatting
         own == base + Len(entries) + 1
         refs == [ detailFormatting |->
                     [k \in DOMAIN entries |-> [key |-> entries[k].key, value |-> base + k]],
                   headerStyleOptions |-> own ]
         parsed == heap.cell \o [k \in DOMAIN entries |-> entries[k].value]
                     \o <<document.headerStyleOptions>>
     IN heap' = [heap EXCEPT
                   !.cell = [parsed EXCEPT ![heap.headerStyleOptions] =
                               ObjectAssign(@, document.headerStyleOptions)],
                   !.detailFormatting = SetKnownShared(<<>>, entries, base, 1),
                   !.applied = Some(refs),
                   !.appliedAs = Some(document),
                   !.steps = @ + 1]
  /\ UNCHANGED <<built, shareFrame>>

InitShare ==
  /\ heap = InitialHeap
  /\ built = NoBuilt
  /\ state = InitialState(<<>>)
  /\ doc = EmptyDoc
  /\ pre = state
  /\ phase = "share"
  /\ raised = FALSE
  /\ file = NoFile
  /\ alertMsg = "none"
  /\ detailDom = <<>>
  /\ tagDom = <<>>
  /\ page = NoPage
  /\ songs = <<>>
  /\ detail = NoDetail
  /\ pdf = NoPdf
  /\ load = NoLoad
  /\ draggedDetailElement = 0
  /\ draggedTagElement = 0
  /\ settingsFile = NoFile
  /\ exported = NoExport
  /\ nEvents = 0
  /\ nImports = 0

NextShare ==
  \/ ShareBuild
  \/ \E key \in SharedKeys : ShareBoldClick(key)
  \/ \E key \in SharedKeys : ShareItalicClick(key)
  \/ \E key \in SharedKeys, size \in FontSizeInputs : ShareFontSizeChange(key, size)
  \/ \E checked \in BOOLEAN : ShareHeaderBoldChange(checked)
  \/ \E value \in {"left", "center"} : ShareHeaderAlignmentChange(value)
  \/ \E document \in ParsedDocuments : ShareApply(document)

SpecShare == InitShare /\ [][NextShare]_vars

\* C24: a document buildSettings returned says at every later time what it
\* said when it was returned, whatever is toggled, edited or applied
\* afterwards; and a document that was applied says what it said when it was
\* parsed, whatever the state goes through afterwards.
C24_Snapshot ==
  /\ built.done => Deref(heap.cell, built.document) = built.returned
  /\ (heap.done /\ heap.applied # None) =>
       LET now == Deref(heap.cell, heap.applied[1])
       IN /\ now.detailFormatting = heap.appliedAs[1].detailFormatting
          /\ now.headerStyleOptions = heap.appliedAs[1].headerStyleOptions

\* ------------------------------------- claims on the grouping of a section

\* The rows of a table that is not grouped: the songs in input order, one
\* row each, no spacer.
PlainRows(section) ==
  /\ [k \in DOMAIN section.table.body |-> section.table.body[k].song] = section.songs
  /\ \A k \in DOMAIN section.table.body : ~section.table.body[k].spacer

\* The section is sorted and spaced as the flag stored under the context key
\* says; a key the map does not hold counts as false.
FollowsFlag(section, options, context) ==
  IF \E i \in DOMAIN options.alphabeticalGroupingPerContext :
       /\ options.alphabeticalGroupingPerContext[i].key = context
       /\ options.alphabeticalGroupingPerContext[i].value = TRUE
  THEN section.useGrouping /\ GroupedRows(section)
  ELSE ~section.useGrouping /\ PlainRows(section)

\* C25: each tag section is sorted and spaced according to the flag stored
\* under the context key of the tag whose songs it shows, and the all-songs
\* section according to the flag of "allSongs"; this for every selection of
\* tags, two tags of the same name included.
C25_OwnFlag ==
  pdf.done =>
    \A i \in DOMAIN pdf.content :
      LET section == pdf.content[i]
      IN /\ section.kind = "allSongs" => FollowsFlag(section, pdf.options, "allSongs")
         /\ section.kind = "tag" =>
              \A k \in DOMAIN pdf.options.selectedTags :
                LET tag == pdf.options.selectedTags[k]
                IN (Carrying(pdf.options, tag) # {} /\ ShowsTag(section, pdf.options, tag)) =>
                     FollowsFlag(section, pdf.options, TagContext(tag.id))

\* C27: the fallback section is not grouped, whatever the grouping map
\* holds: its rows are the songs in input order, one row each, no spacer.
C27_FallbackUngrouped ==
  pdf.done =>
    \A i \in DOMAIN pdf.content :
      pdf.content[i].kind = "fallback" => PlainRows(pdf.content[i])

\* The export the last click on Export PDF made.
JustExported == phase = "export" /\ alertMsg = "none" /\ pdf.done

\* C26: in every export every row of every section, spacer rows included,
\* has one cell per active column; there are at most 4 active columns, also
\* when more than 4 details are selected; each song cell carries the bold,
\* italic and font size of its column's formatting entry and the text
\* getDetailValue returns for the song and the column.
C26_Cells ==
  JustExported =>
    LET columns == pdf.options.selectedDetails
    IN /\ Len(columns) <= 4
       /\ \A i \in DOMAIN pdf.content :
            \A k \in DOMAIN pdf.content[i].table.body :
              LET row == pdf.content[i].table.body[k]
              IN /\ Len(row.cells) = Len(columns)
                 /\ ~row.spacer =>
                      \A j \in DOMAIN columns :
                        /\ row.cells[j].text = getDetailValue(row.song, columns[j].id).value
                        /\ MapHas(state.detailFormatting, columns[j].id) =>
                             LET entry == MapGet(state.detailFormatting, columns[j].id,
                                                 DefaultFormatting)
                             IN /\ row.cells[j].bold = entry.bold
                                /\ row.cells[j].italics = entry.italic
                                /\ row.cells[j].fontSize = entry.fontSize

\* Five details are selected, the export has four columns and a spacer row.
C26_Witness ==
  /\ JustExported
  /\ Len(state.selectedDetails) = 5
  /\ Len(pdf.options.selectedDetails) = 4
  /\ \E i \in DOMAIN pdf.content :
       \E k \in DOMAIN pdf.content[i].table.body :
         /\ pdf.content[i].table.body[k].spacer
         /\ Len(pdf.content[i].table.body[k].cells) = 4

\* ------------------------------------------------- claims on failed imports

\* C29: all-or-nothing import.  When applySettings raises while a document
\* is imported, every part of the state is as it was before the import.
C29_AllOrNothing ==
  (phase = "import" /\ raised) => state = pre

\* C30: in every state of a session detailFormatting has an entry for each
\* of the 12 catalog details, so that a bold, italic or font-size action on
\* any detail finds the formatting it changes.
C30_FormattingComplete ==
  \A i \in DOMAIN availableDetails :
    MapHas(state.detailFormatting, availableDetails[i].id)

\* ----------------------------------------------------- SpecLoad: loadAllSongs

\* const limit = 200
limit == 200

\* The server answers a short page at the latest for this page.
MaxPages == 3

\* The songs of page p when it holds n of them.
PageOf(p, n) == [i \in 1..n |-> 1000 * p + i]

\* What churchtoolsClient.get resolves to: the array of songs, an object
\* with the array as its data, an object without data, or nothing.
ResponseShapes == {"array", "data", "nodata", "undefined"}

\* The numbers of songs a page may hold: none, one, just below the limit,
\* the limit, and more than the limit.
PageSizes == {0, 1, limit - 1, limit, limit + 1}

\* The responses the server may give for page p; from MaxPages on they are
\* short.
Responses(p) ==
  {[shape |-> sh, songs |-> PageOf(p, n)] :
     sh \in {"array", "data"}, n \in {m \in PageSizes : p < MaxPages \/ m < limit}}
  \cup {[shape |-> sh, songs |-> <<>>] : sh \in {"nodata", "undefined"}}

\* Array.isArray(response) ? response : ((response as any)?.data || [])
SongsOf(response) ==
  IF response.shape \in {"array", "data"} THEN response.songs ELSE <<>>

\* Mutant: the loop goes on until a page is empty.
MoreAfterAny(n) == TRUE

\* if (songs.length < limit) hasMore = false, for a page that is not empty
MoreAfter(n) == ~(n < limit)

InitialLoad ==
  [ done |-> FALSE, pc |-> "while", page |-> 1, hasMore |-> TRUE, allSongs |-> <<>>,
    response |-> None, requested |-> <<>>, responses |-> <<>> ]

\* Everything but the loadAllSongs call.
loadFrame ==
  <<codecVars, file, alertMsg, detailDom, tagDom, page, songs, detail, pdf, built, heap,
    draggedDetailElement, draggedTagElement, settingsFile, exported, nEvents, nImports>>

\* while (hasMore) { const response = await churchtoolsClient.get(...page...)
Get ==
  /\ load.pc = "while"
  /\ load.hasMore
  /\ \E response \in Responses(load.page) :
       load' = [load EXCEPT !.pc = "body", !.response = Some(response),
                            !.requested = Append(@, load.page),
                            !.responses = Append(@, response)]
  /\ UNCHANGED loadFrame

\* The body of the loop for the response received.
Body ==
  /\ load.pc = "body"
  /\ LET pageSongs == SongsOf(load.response[1])
     IN load' = IF Len(pageSongs) > 0
                THEN [load EXCEPT !.pc = "while", !.response = None,
                                  !.allSongs = @ \o pageSongs,
                                  !.page = @ + 1,
                                  !.hasMore = MoreAfter(Len(pageSongs))]
                ELSE [load EXCEPT !.pc = "while", !.response = None, !.hasMore = FALSE]
  /\ UNCHANGED loadFrame

\* return allSongs
Return ==
  /\ load.pc = "while"
  /\ ~load.hasMore
  /\ load' = [load EXCEPT !.pc = "returned", !.done = TRUE]
  /\ UNCHANGED loadFrame

InitLoad ==
  /\ load = InitialLoad
  /\ state = InitialState(<<>>)
  /\ doc = EmptyDoc
  /\ pre = state
  /\ phase = "loadAllSongs"
  /\ raised = FALSE
  /\ file = NoFile
  /\ alertMsg = "none"
  /\ detailDom = <<>>
  /\ tagDom = <<>>
  /\ page = NoPage
  /\ songs = <<>>
  /\ built = NoBuilt
  /\ heap = NoHeap
  /\ detail = NoDetail
  /\ pdf = NoPdf
  /\ draggedDetailElement = 0
  /\ draggedTagElement = 0
  /\ settingsFile = NoFile
  /\ exported = NoExport
  /\ nEvents = 0
  /\ nImports = 0

NextLoad == Get \/ Body \/ Return

\* The loop runs on: an awaited request is answered and the code after it
\* is run.
SpecLoad == InitLoad /\ [][NextLoad]_vars /\ WF_vars(NextLoad)

\* ------------------------------------------------------ claims on the loading

\* The number of songs each answered request returned, in request order.
Returned == [i \in 1..Len(load.responses) |-> Len(SongsOf(load.responses[i]))]

RECURSIVE Concatenated(_, _)
\* The songs of the first n answered requests, in page order.
Concatenated(responses, n) ==
  IF n = 0 THEN <<>> ELSE Concatenated(responses, n - 1) \o SongsOf(responses[n])

\* Pages 1, 2, 3, ... were requested, none after a page of fewer than limit
\* songs; the loop is over exactly when the last page was such a page and
\* was handled; what is returned are the songs of the requested pages.
Paginated ==
  /\ load.requested = [i \in 1..Len(load.requested) |-> i]
  /\ Len(load.responses) = Len(load.requested)
  /\ \A i \in 1..(Len(Returned) - 1) : Returned[i] >= limit
  /\ (load.pc = "while" /\ Len(Returned) > 0) =>
       (load.hasMore <=> Returned[Len(Returned)] >= limit)
  /\ load.pc = "returned" =>
       /\ Len(Returned) > 0
       /\ Returned[Len(Returned)] < limit
       /\ load.allSongs = Concatenated(load.responses, Len(load.responses))

\* C28: loadAllSongs requests pages 1, 2, 3, ... in order, stops after the
\* first page that returns fewer than 200 songs (an empty page included)
\* and requests no page after it, returns the songs of all requested pages
\* concatenated in page order, and terminates when the server eventually
\* returns such a short page.
C28_Pagination == [](Paginated) /\ <>(load.pc = "returned")

\* Two full pages and a short third one with songs were loaded and returned.
C28_Witness ==
  /\ load.done
  /\ load.pc = "returned"
  /\ load.requested = <<1, 2, 3>>
  /\ Returned[3] \in 1..(limit - 1)
  /\ Len(load.allSongs) = Returned[1] + Returned[2] + Returned[3]
====
